---- MODULE Spec2Model ----
(***************************************************************************)
(* Change dispensing of the SSP kiosk: the hopper controller               *)
(* (managers/hopper_manager.py), the feasibility engine                    *)
(* (managers/payment_algorithm_manager.py) and the payment orchestrator    *)
(* (screens/payment/model.py) as a state machine.                          *)
(*                                                                         *)
(* One step of the model is one statement group of the Python code that    *)
(* another thread (the pigpio callback thread, a second dispense thread)   *)
(* can observe as a unit.  The sensor edges, the loss of the pigpio        *)
(* connection and the outcome of a reconnect are the environment.          *)
(***************************************************************************)
EXTENDS Integers, Sequences, FiniteSets, TLC

\* ------------------------------------------------------------ constants

\* hopper_manager.py:19
MAX_RETRY_ATTEMPTS == 5

\* hopper_manager.py:142, the debounce window in microseconds (0.01 s)
DEBOUNCE_US == 10000

\* Bounds of the model.
MaxAmount == 12
MaxPulses == 2

\* hopper_manager.py:25-34, HOPPER_CONFIGS: 'A' holds 1-peso, 'B' 5-peso coins
HOPPER_CONFIGS == {"A", "B"}

\* The threads that may run dispense_change; the second one is used only by
\* the specification of concurrent calls.
Threads == {1, 2}

\* Amounts a direct caller passes to dispense_change: two non-positive ones,
\* a single coin, and the largest (two coins of each kind).
Amounts == {-5, 0, 1, MaxAmount}

\* Durations (microseconds) of a low pulse on a sensor line: a bounce, a pulse
\* of exactly the debounce window, and a coin's transit.
PulseDurations == {DEBOUNCE_US - 5000, DEBOUNCE_US, DEBOUNCE_US + 10000}

\* Amounts two concurrent callers pass: one coin of each hopper; and the
\* pulses on each sensor line while they run.
ConcAmounts == {1, 5}
ConcPulses == 1

\* Prices of a print job (total_cost), and the values the acceptors report:
\* a 5-peso coin and a 20-peso bill.
Costs == {3, 5, 9}
InsertValues == {5, 20}

\* Stored counts of each coin denomination when the transaction begins, and
\* the reserve thresholds read from the settings (the same for both coins).
StoredCounts == {0, 3}
Thresholds == {0, 1}

\* Inputs of the feasibility engine.  Prices (total_cost, in centavos): the
\* whole prices up to MaxCost pesos, a price that is a tender denomination,
\* the price 23 pesos, and prices with centavos.  Stored coin counts: up to
\* MaxCoins, or a full hopper of 100.  Reserve thresholds up to MaxThreshold.
\* Change amounts asked of can_dispense_change, in whole pesos.  The setting
\* max_change_limit: 5 pesos, or the default 50.  Payments: one coin or bill
\* of each tender denomination.
MaxCost == 6
MaxCoins == 3
MaxThreshold == 1
MaxChange == 25
EngineCosts == {n * 100 : n \in 1..MaxCost} \cup {250, 2000, 2250, 2300, 2340}
CoinCounts == 0..MaxCoins \cup {100}
ThresholdValues == 0..MaxThreshold
ChangeAmounts == -2..MaxChange
ChangeLimits == {500, 5000}
PaymentAmounts == {100, 500, 1000, 2000, 5000, 10000}

\* The settings and inventory stores between the calls on one engine: the
\* prices of the job, and the coins an inventory update deducts (up to
\* MaxDispensed of each kind, more than any stored count of StoredCounts).
MaxDispensed == 4
StoreCosts == {300, 2300}
Dispensed == 0..MaxDispensed

\* The edges reported to one sensor callback: at most MaxEdges of them, the
\* pigpio tick (a 32-bit microsecond counter) starting at 0 or shortly before
\* it wraps, and each edge one of PulseDurations after the one before.
\* A tick t is held as t - 2^31, which is the range of the integers at hand:
\* MinTick stands for tick 0 and MaxTick for the last tick, 2^32 - 1.
MaxEdges == 4
MaxTick == 2147483647
MinTick == -MaxTick - 1
StartTicks == {MinTick, MaxTick - DEBOUNCE_US - 4999}

VARIABLES
    callers,     \* the threads that exist in this run
    simulated,   \* ChangeDispenser.simulated
    pi,          \* ChangeDispenser.pi: "none" | "up" (connected) | "down"
    hoppers,     \* keys of ChangeDispenser.hoppers
    hop,         \* the HopperController bound to each name
    phys,        \* the physical side of each hopper: motor pin, sensor line
    call,        \* locals of each thread's dispense_change
    coin,        \* locals of each thread's dispense_single_coin
    hist,        \* what each thread's current call has done (for the claims)
    pay,         \* the PaymentModel of the payment screen and the coin inventory
    eng,         \* a PaymentAlgorithmManager, the call made on it and its result
    sen          \* one controller's sensor state and the pigpio tick, edge by edge

vars == <<eng, pay, callers, sen, simulated, pi, hoppers, hop, phys, call, coin, hist>>

\* ------------------------------------------------------------ records

\* HopperController.__init__, the state variables
FreshController(cb) ==
    [enabled |-> FALSE, dispensing |-> FALSE, sensor_active |-> FALSE,
     coin_passage_count |-> 0, callback |-> cb]

\* motor: the enable pin is low (active); low: a coin or a bounce holds the
\* sensor line low; passed: passages (pulses longer than the debounce window)
\* completed since the current dispense_change call began; pulses: pulses begun
\* since then.
FreshPhys == [motor |-> FALSE, low |-> FALSE, passed |-> 0, pulses |-> 0]

\* The dict dispense_change returns.  has_totals: the keys actual_change and
\* expected_change are present; error "none": the key error is absent.
Result(ok, c1, c5, totals, actual, expected, err) ==
    [success |-> ok, coins_1 |-> c1, coins_5 |-> c5, has_totals |-> totals,
     actual_change |-> actual, expected_change |-> expected, error |-> err]

NoResult == Result(FALSE, 0, 0, FALSE, 0, 0, "unset")

IdleCall ==
    [pc |-> "idle", amount |-> 0, num_fives |-> 0, num_ones |-> 0,
     actual_fives |-> 0, actual_ones |-> 0, denom |-> 5, i |-> 0,
     result |-> NoResult]

\* lost is beside the code: the connection was down when the
\* dispense_single_coin call began
IdleCoin ==
    [hopper |-> "B", attempt |-> 0, success |-> FALSE, wait |-> FALSE, lost |-> FALSE]

FreshHist ==
    [checks |-> 0, reconnects |-> 0, wrote |-> FALSE, callbacks |-> 0,
     lastCallback |-> "none", attempts |-> 0, outcomes |-> << >>,
     tried |-> [d \in {1, 5} |-> 0],
     failed |-> [d \in {1, 5} |-> FALSE], returned |-> FALSE]

\* The sensor state of a HopperController as __init__ leaves it (lines 57-60),
\* with the tick of the pigpio clock, the level of the last edge reported
\* (the line idles high) and the number of edges reported
NoSensor ==
    [tick |-> MinTick, level |-> 1, sensor_active |-> FALSE,
     last_sensor_change |-> MinTick, coin_passage_count |-> 0, edges |-> 0,
     since |-> 0]

\* ------------------------------------------------------------ construction

\* ChangeDispenser.__init__: the pigpio library and daemon present and both
\* hoppers built ("real"); the library absent ("nolib"); the daemon not
\* reachable ("nodaemon"); the connection lost after hopper A was built
\* ("partial").  Every failure switches to simulation mode.
InitDispenser(variant) ==
    /\ simulated = (variant # "real")
    /\ pi = CASE variant = "real" -> "up"
               [] variant = "nolib" -> "none"
               [] OTHER -> "down"
    /\ hoppers = CASE variant = "real" -> HOPPER_CONFIGS
                    [] variant = "partial" -> {"A"}
                    [] OTHER -> {}
    /\ hop = [h \in HOPPER_CONFIGS |->
               FreshController(variant = "real" \/ (variant = "partial" /\ h = "A"))]
    /\ phys = [h \in HOPPER_CONFIGS |-> FreshPhys]

InitThreads ==
    /\ call = [t \in Threads |-> IdleCall]
    /\ coin = [t \in Threads |-> IdleCoin]
    /\ hist = [t \in Threads |-> FreshHist]

\* PaymentModel.__init__ (model.py:164-178) with no print job set
NoPayment ==
    [pc |-> "none", total_cost |-> 0, amount_received |-> 0,
     cash_received |-> [v \in InsertValues |-> 0],
     payment_ready |-> FALSE, completing |-> FALSE,
     inventory |-> [d \in {1, 5} |-> 0], inventory0 |-> [d \in {1, 5} |-> 0],
     threshold |-> [d \in {1, 5} |-> 0], result |-> NoResult]

\* A PaymentAlgorithmManager on which nothing has been called.  inventory is
\* the stored coin inventory (the cash inventory table) and settings the
\* settings table; threshold and MAX_CHANGE_LIMIT are the attributes
\* __init__ set from it.  dispensed and before are the argument of an
\* inventory update and the stored counts it found.
NoEngine ==
    [pc |-> "none", total_cost |-> 0,
     inventory |-> [d \in {1, 5} |-> 0], threshold |-> [d \in {1, 5} |-> 0],
     MAX_CHANGE_LIMIT |-> 0, arg |-> 0,
     can_dispense |-> FALSE, required_coins |-> [d \in {1, 5} |-> 0],
     amount |-> 0, change |-> 0, suggestions |-> << >>, has_info |-> FALSE,
     settings |-> [min_coin_threshold |-> [d \in {1, 5} |-> 0], max_change_limit |-> 0],
     dispensed |-> [d \in {1, 5} |-> 0], before |-> [d \in {1, 5} |-> 0]]

Init ==
    /\ callers = {1}
    /\ \E variant \in {"real", "nolib", "nodaemon", "partial"} : InitDispenser(variant)
    /\ InitThreads
    /\ sen = NoSensor
    /\ pay = NoPayment
    /\ eng = NoEngine

\* ------------------------------------------------------------ dispense_change

\* status_callback(text), as seen by the caller: how many, and the last kind
Notified(h, kind) == [h EXCEPT !.callbacks = @ + 1, !.lastCallback = kind]

\* A caller (DispenseThread.run, or a direct caller) invokes
\* dispense_change(amount).  The passages counted for the claims restart.
Call(t, a) ==
    /\ t \in callers
    /\ call[t].pc = "idle"
    /\ call' = [call EXCEPT ![t] = [IdleCall EXCEPT !.pc = "entry", !.amount = a]]
    /\ hist' = [hist EXCEPT ![t] = FreshHist]
    /\ phys' = [h \in HOPPER_CONFIGS |-> [phys[h] EXCEPT !.passed = 0, !.pulses = 0]]
    /\ UNCHANGED <<eng, pay, callers, sen, simulated, pi, hoppers, hop, coin>>

\* Mutant: the guard as amount < 0
NothingToDispenseStrict(amount) == amount < 0

\* line 317: if amount <= 0
NothingToDispense(amount) == amount <= 0

\* lines 317-318
Entry(t) ==
    /\ call[t].pc = "entry"
    /\ call' = IF NothingToDispense(call[t].amount)
               THEN [call EXCEPT ![t].pc = "done",
                                 ![t].result = Result(TRUE, 0, 0, FALSE, 0, 0, "none")]
               ELSE [call EXCEPT ![t].pc = "check"]
    /\ UNCHANGED <<eng, pay, callers, sen, simulated, pi, hoppers, hop, phys, coin, hist>>

\* What a reconnect (lines 254-279) can meet: pigpio.pi() comes back not
\* connected; it is connected and both hoppers are rebuilt; the connection is
\* lost again after hopper A was rebuilt, so HopperController.__init__ raises
\* for hopper B (line 45).
ReconnectOutcomes == {"refused", "ok", "lost_after_A"}

\* Mutant: a reconnect that rebuilds hopper A alone
RebuiltOnlyA(o) == CASE o = "ok" -> {"A"}
                     [] o = "lost_after_A" -> {"A"}
                     [] OTHER -> {}

\* Hoppers rebuilt under each outcome (lines 265-272, 302-309)
Rebuilt(o) == CASE o = "ok" -> HOPPER_CONFIGS
                [] o = "lost_after_A" -> {"A"}
                [] OTHER -> {}

\* Mutant: check_connection without its except clause, the exception of
\* HopperController.__init__ leaves dispense_change.
CheckConnectionReturnUncaught(o) == CASE o = "ok" -> "true"
                                      [] o = "refused" -> "false"
                                      [] OTHER -> "raise"

\* Mutant: a refused reconnect taken for a restored connection
CheckConnectionReturnIgnoresRefusal(o) == CASE o = "ok" -> "true"
                                            [] o = "refused" -> "true"
                                            [] OTHER -> "false"

\* What check_connection does with each outcome: lines 262-273 return True,
\* 274-276 return False, and the except clause 277-279 turns the exception of
\* HopperController.__init__ into False.
CheckConnectionReturn(o) == CASE o = "ok" -> "true"
                              [] o = "refused" -> "false"
                              [] OTHER -> "false"

\* Mutant: a rebuilt controller that does not write its enable pin
CleanedAndRebuiltNoDisable(cleaned, built) ==
    /\ hop' = [h \in HOPPER_CONFIGS |->
                IF h \in built THEN FreshController(TRUE)
                ELSE IF h \in cleaned THEN [hop[h] EXCEPT !.callback = FALSE]
                ELSE hop[h]]
    /\ phys' = phys

\* cleanup_all_hoppers (lines 409-419) on a handle that is not connected:
\* HopperController.cleanup skips _disable_hopper and cancels the callback;
\* then new controllers are constructed for the names in built.
CleanedAndRebuilt(cleaned, built) ==
    /\ hop' = [h \in HOPPER_CONFIGS |->
                IF h \in built THEN FreshController(TRUE)
                ELSE IF h \in cleaned THEN [hop[h] EXCEPT !.callback = FALSE]
                ELSE hop[h]]
    /\ phys' = [h \in HOPPER_CONFIGS |->
                 IF h \in built THEN [phys[h] EXCEPT !.motor = FALSE] ELSE phys[h]]

\* The result of a failed hardware check, lines 322-326 and 332-336
Failure(err) == Result(FALSE, 0, 0, FALSE, 0, 0, err)

\* check_connection (lines 247-280) and its use at lines 321-326
CheckConnection(t) ==
    /\ call[t].pc = "check"
    /\ IF simulated \/ pi = "up"
       THEN /\ call' = [call EXCEPT ![t].pc = "reinit"]
            /\ hist' = [hist EXCEPT ![t].checks = @ + 1]
            /\ UNCHANGED <<pi, hoppers, hop, phys>>
       ELSE \E o \in ReconnectOutcomes :
            LET cleaned == IF pi # "none" THEN hoppers ELSE {}
                ret == CheckConnectionReturn(o)
            IN  /\ pi' = IF o = "ok" THEN "up" ELSE "down"
                /\ hoppers' = (hoppers \ cleaned) \cup Rebuilt(o)
                /\ CleanedAndRebuilt(cleaned, Rebuilt(o))
                /\ call' = CASE ret = "true" -> [call EXCEPT ![t].pc = "reinit"]
                             [] ret = "false" ->
                                  [call EXCEPT ![t].pc = "done",
                                     ![t].result = Failure("pigpio_connection_failed")]
                             [] OTHER -> [call EXCEPT ![t].pc = "raised"]
                /\ hist' = [hist EXCEPT ![t] =
                              LET h1 == [hist[t] EXCEPT !.checks = @ + 1,
                                             !.reconnects = @ + 1,
                                             !.wrote = @ \/ Rebuilt(o) # {}]
                              IN IF ret = "false" THEN Notified(h1, "error") ELSE h1]
    /\ UNCHANGED <<eng, pay, callers, sen, simulated, coin>>

\* Mutant: the number of fives rounded up
NumFivesRoundedUp(amount) == (amount + 4) \div 5

\* lines 338-339 for a whole amount
NumFives(amount) == amount \div 5
NumOnes(amount) == amount % 5

\* lines 329-347: reinitialize_hoppers (lines 292-313) when the dict is empty,
\* then the breakdown and the first status callback
Reinit(t) ==
    /\ call[t].pc = "reinit"
    /\ LET proceed == [call EXCEPT ![t].pc = "loop", ![t].denom = 5, ![t].i = 0,
                          ![t].num_fives = NumFives(call[t].amount),
                          ![t].num_ones = NumOnes(call[t].amount),
                          ![t].actual_fives = 0, ![t].actual_ones = 0]
           refuse == [call EXCEPT ![t].pc = "done",
                         ![t].result = Failure("hopper_initialization_failed")]
       IN IF hoppers # {}
          THEN /\ call' = proceed
               /\ hist' = [hist EXCEPT ![t] = Notified(@, "preparing")]
               /\ UNCHANGED <<pi, hoppers, hop, phys>>
          ELSE IF simulated \/ pi # "up"
          THEN /\ call' = refuse
               /\ hist' = [hist EXCEPT ![t] = Notified(@, "error")]
               /\ UNCHANGED <<pi, hoppers, hop, phys>>
          ELSE \E o \in {"ok", "lost_after_A"} :
               /\ pi' = IF o = "ok" THEN "up" ELSE "down"
               /\ hoppers' = Rebuilt(o)
               /\ CleanedAndRebuilt({}, Rebuilt(o))
               /\ call' = IF o = "ok" THEN proceed ELSE refuse
               /\ hist' = [hist EXCEPT ![t] =
                             Notified([hist[t] EXCEPT !.wrote = @ \/ Rebuilt(o) # {}],
                                      IF o = "ok" THEN "preparing" ELSE "error")]
    /\ UNCHANGED <<eng, pay, callers, sen, simulated, coin>>

\* The hopper of each denomination (lines 359 and 381)
HopperOf(d) == IF d = 5 THEN "B" ELSE "A"

\* The rest of the history that belongs to one dispense_single_coin call
CoinHist(h, d) ==
    [h EXCEPT !.attempts = 0, !.outcomes = << >>, !.returned = FALSE, !.tried = [@ EXCEPT ![d] = @ + 1]]

\* Mutant: the one-peso coins dispensed before the five-peso coins
LoopOnesFirst(t) ==
    /\ call[t].pc = "loop"
    /\ LET d == IF call[t].denom = 5 THEN 1 ELSE 5
           n == IF d = 5 THEN call[t].num_fives ELSE call[t].num_ones
       IN IF call[t].i < n
          THEN /\ hist' = [hist EXCEPT ![t] = CoinHist(Notified(hist[t], "coin"), d)]
               /\ IF simulated
                  THEN /\ coin' = [coin EXCEPT ![t].success = TRUE]
                       /\ call' = [call EXCEPT ![t].pc = "coin_ret"]
                  ELSE IF HopperOf(d) \in hoppers
                  THEN /\ coin' = [coin EXCEPT ![t] =
                                     [IdleCoin EXCEPT !.hopper = HopperOf(d)]]
                       /\ call' = [call EXCEPT ![t].pc = "coin_check"]
                  ELSE /\ call' = [call EXCEPT ![t].pc = "raised"]
                       /\ UNCHANGED coin
          ELSE /\ call' = IF d = 1
                          THEN [call EXCEPT ![t].denom = 1, ![t].i = 0]
                          ELSE [call EXCEPT ![t].pc = "finish"]
               /\ UNCHANGED <<coin, hist>>
    /\ UNCHANGED <<eng, pay, callers, sen, simulated, pi, hoppers, hop, phys>>

\* The two for-loops, lines 350-359 and 372-381: the loop test, the status
\* callback, and either the simulated coin or the call of dispense_single_coin
\* on the denomination's hopper (a KeyError when the dict lacks it).
Loop(t) ==
    /\ call[t].pc = "loop"
    /\ LET d == call[t].denom
           n == IF d = 5 THEN call[t].num_fives ELSE call[t].num_ones
       IN IF call[t].i < n
          THEN /\ hist' = [hist EXCEPT ![t] = CoinHist(Notified(hist[t], "coin"), d)]
               /\ IF simulated
                  THEN /\ coin' = [coin EXCEPT ![t].success = TRUE]
                       /\ call' = [call EXCEPT ![t].pc = "coin_ret"]
                  ELSE IF HopperOf(d) \in hoppers
                  THEN /\ coin' = [coin EXCEPT ![t] =
                                     [IdleCoin EXCEPT !.hopper = HopperOf(d)]]
                       /\ call' = [call EXCEPT ![t].pc = "coin_check"]
                  ELSE /\ call' = [call EXCEPT ![t].pc = "raised"]
                       /\ UNCHANGED coin
          ELSE /\ call' = IF d = 5
                          THEN [call EXCEPT ![t].denom = 1, ![t].i = 0]
                          ELSE [call EXCEPT ![t].pc = "finish"]
               /\ UNCHANGED <<coin, hist>>
    /\ UNCHANGED <<eng, pay, callers, sen, simulated, pi, hoppers, hop, phys>>

\* Mutant: a failed coin does not end the loop of its denomination
CoinRetContinue(t) ==
    /\ call[t].pc = "coin_ret"
    /\ LET d == call[t].denom
       IN /\ call' = [call EXCEPT ![t].pc = "loop", ![t].i = @ + 1,
                        ![t].actual_fives = IF d = 5 /\ coin[t].success THEN @ + 1 ELSE @,
                        ![t].actual_ones = IF d = 1 /\ coin[t].success THEN @ + 1 ELSE @]
          /\ hist' = IF coin[t].success THEN hist
                     ELSE [hist EXCEPT ![t] =
                             Notified([hist[t] EXCEPT !.failed = [@ EXCEPT ![d] = TRUE]],
                                      "error")]
    /\ UNCHANGED <<eng, pay, callers, sen, simulated, pi, hoppers, hop, phys, coin>>

\* lines 361-369 and 383-391: count the coin, or report the failure and leave
\* the loop of this denomination
CoinRet(t) ==
    /\ call[t].pc = "coin_ret"
    /\ LET d == call[t].denom
       IN IF coin[t].success
          THEN /\ call' = [call EXCEPT ![t].pc = "loop", ![t].i = @ + 1,
                             ![t].actual_fives = IF d = 5 THEN @ + 1 ELSE @,
                             ![t].actual_ones = IF d = 1 THEN @ + 1 ELSE @]
               /\ UNCHANGED hist
          ELSE /\ call' = IF d = 5
                          THEN [call EXCEPT ![t].pc = "loop", ![t].denom = 1, ![t].i = 0]
                          ELSE [call EXCEPT ![t].pc = "finish"]
               /\ hist' = [hist EXCEPT ![t] =
                             Notified([hist[t] EXCEPT !.failed = [@ EXCEPT ![d] = TRUE]],
                                      "error")]
    /\ UNCHANGED <<eng, pay, callers, sen, simulated, pi, hoppers, hop, phys, coin>>

\* Mutant: a shortfall reported as a failed operation
FinishFailsOnShortfall(t) ==
    /\ call[t].pc = "finish"
    /\ LET actual_change == (call[t].actual_fives * 5) + (call[t].actual_ones * 1)
           expected_change == (call[t].num_fives * 5) + (call[t].num_ones * 1)
       IN call' = [call EXCEPT ![t].pc = "done",
                      ![t].result = Result(actual_change = expected_change,
                                           call[t].actual_ones,
                                           call[t].actual_fives, TRUE,
                                           actual_change, expected_change, "none")]
    /\ hist' = [hist EXCEPT ![t] = Notified(@, "complete")]
    /\ UNCHANGED <<eng, pay, callers, sen, simulated, pi, hoppers, hop, phys, coin>>

\* Mutant: the result returned without the completion message
FinishSilent(t) ==
    /\ call[t].pc = "finish"
    /\ LET actual_change == (call[t].actual_fives * 5) + (call[t].actual_ones * 1)
           expected_change == (call[t].num_fives * 5) + (call[t].num_ones * 1)
       IN call' = [call EXCEPT ![t].pc = "done",
                      ![t].result = Result(TRUE, call[t].actual_ones,
                                           call[t].actual_fives, TRUE,
                                           actual_change, expected_change, "none")]
    /\ UNCHANGED <<eng, pay, callers, sen, simulated, pi, hoppers, hop, phys, coin, hist>>

\* lines 393-407
Finish(t) ==
    /\ call[t].pc = "finish"
    /\ LET actual_change == (call[t].actual_fives * 5) + (call[t].actual_ones * 1)
           expected_change == (call[t].num_fives * 5) + (call[t].num_ones * 1)
       IN call' = [call EXCEPT ![t].pc = "done",
                      ![t].result = Result(TRUE, call[t].actual_ones,
                                           call[t].actual_fives, TRUE,
                                           actual_change, expected_change, "none")]
    /\ hist' = [hist EXCEPT ![t] = Notified(@, "complete")]
    /\ UNCHANGED <<eng, pay, callers, sen, simulated, pi, hoppers, hop, phys, coin>>

\* The caller takes the result (DispenseThread.run, lines 463-469); the
\* locals of the call are gone.
Return(t) ==
    /\ call[t].pc = "done"
    /\ call' = [call EXCEPT ![t] = IdleCall]
    /\ coin' = [coin EXCEPT ![t] = IdleCoin]
    /\ hist' = [hist EXCEPT ![t] = FreshHist]
    /\ phys' = [h \in HOPPER_CONFIGS |-> [phys[h] EXCEPT !.passed = 0, !.pulses = 0]]
    /\ UNCHANGED <<eng, pay, callers, sen, simulated, pi, hoppers, hop>>

\* ------------------------------------------------------------ dispense_single_coin

\* lines 187-189: a call that finds the hopper dispensing returns False at once
CoinCheck(t) ==
    /\ call[t].pc = "coin_check"
    /\ IF hop[coin[t].hopper].dispensing
       THEN /\ coin' = [coin EXCEPT ![t].success = FALSE]
            /\ call' = [call EXCEPT ![t].pc = "coin_ret"]
       ELSE /\ call' = [call EXCEPT ![t].pc = "coin_set"]
            /\ UNCHANGED coin
    /\ UNCHANGED <<eng, pay, callers, sen, simulated, pi, hoppers, hop, phys, hist>>

\* lines 191-195
CoinSet(t) ==
    /\ call[t].pc = "coin_set"
    /\ hop' = [hop EXCEPT ![coin[t].hopper].dispensing = TRUE]
    /\ coin' = [coin EXCEPT ![t].attempt = 1, ![t].success = FALSE,
                            ![t].lost = (pi # "up")]
    /\ call' = [call EXCEPT ![t].pc = "attempt"]
    /\ UNCHANGED <<eng, pay, callers, sen, simulated, pi, hoppers, phys, hist>>

\* Mutant: the loop test off by one
RetryAllowedOffByOne(attempt) == attempt < MAX_RETRY_ATTEMPTS

\* line 196: while attempt <= MAX_RETRY_ATTEMPTS
RetryAllowed(attempt) == attempt <= MAX_RETRY_ATTEMPTS

\* line 196, and lines 175 and 105-116: the loop test and, inside the loop,
\* _enable_hopper, which writes the enable pin low on a connected handle
Enable(t) ==
    /\ call[t].pc = "attempt"
    /\ LET h == coin[t].hopper
       IN IF RetryAllowed(coin[t].attempt)
          THEN /\ call' = [call EXCEPT ![t].pc = "reset"]
               /\ IF pi = "up"
                  THEN /\ phys' = [phys EXCEPT ![h].motor = TRUE]
                       /\ hop' = [hop EXCEPT ![h].enabled = TRUE]
                       /\ hist' = [hist EXCEPT ![t].attempts = @ + 1,
                                               ![t].wrote = TRUE]
                  ELSE /\ hist' = [hist EXCEPT ![t].attempts = @ + 1]
                       /\ UNCHANGED <<phys, hop>>
          ELSE /\ call' = [call EXCEPT ![t].pc = "settle"]
               /\ UNCHANGED <<phys, hop, hist>>
    /\ UNCHANGED <<eng, pay, callers, sen, simulated, pi, hoppers, coin>>

\* lines 150-152: _wait_for_coin_passage resets the counters of the attempt
ResetCounters(t) ==
    /\ call[t].pc = "reset"
    /\ hop' = [hop EXCEPT ![coin[t].hopper].coin_passage_count = 0,
                          ![coin[t].hopper].sensor_active = FALSE]
    /\ call' = [call EXCEPT ![t].pc = "wait"]
    /\ UNCHANGED <<eng, pay, callers, sen, simulated, pi, hoppers, phys, coin, hist>>

\* What _wait_for_coin_passage has seen when it returns: exactly one passage
\* (lines 156-158, 165-167), several (159-161, 168-170), or none at the
\* timeout (168-170)
Outcome(count) == IF count = 1 THEN "one" ELSE IF count > 1 THEN "over" ELSE "timeout"

\* lines 154-170: the poll loop returns as soon as a poll reads a count of one
\* or more, and at the timeout whatever the count; it returns whether the
\* count it read is exactly one.
WaitReturn(t) ==
    /\ call[t].pc = "wait"
    /\ LET count == hop[coin[t].hopper].coin_passage_count
       IN /\ coin' = [coin EXCEPT ![t].wait = (count = 1)]
          /\ hist' = [hist EXCEPT ![t].outcomes = Append(@, Outcome(count))]
    /\ call' = [call EXCEPT ![t].pc = "disable"]
    /\ UNCHANGED <<eng, pay, callers, sen, simulated, pi, hoppers, hop, phys>>

\* line 181 and lines 118-128: _disable_hopper writes the enable pin high on
\* a connected handle.
Disable(t) ==
    /\ call[t].pc = "disable"
    /\ LET h == coin[t].hopper
       IN /\ IF pi = "up"
             THEN /\ phys' = [phys EXCEPT ![h].motor = FALSE]
                  /\ hop' = [hop EXCEPT ![h].enabled = FALSE]
                  /\ hist' = [hist EXCEPT ![t].wrote = TRUE]
             ELSE UNCHANGED <<phys, hop, hist>>
    /\ call' = [call EXCEPT ![t].pc = "after"]
    /\ UNCHANGED <<eng, pay, callers, sen, simulated, pi, hoppers, coin>>

\* Mutant: no break after a successful attempt
AfterAttemptNoBreak(t) ==
    /\ call[t].pc = "after"
    /\ IF hop[coin[t].hopper].coin_passage_count > 1
       THEN /\ call' = [call EXCEPT ![t].pc = "settle"]
            /\ UNCHANGED coin
       ELSE /\ coin' = [coin EXCEPT ![t].attempt = @ + 1,
                                    ![t].success = @ \/ coin[t].wait]
            /\ call' = [call EXCEPT ![t].pc = "attempt"]
    /\ UNCHANGED <<eng, pay, callers, sen, simulated, pi, hoppers, hop, phys, hist>>

\* lines 198-210: break on success, break on over-dispense, else the next attempt
AfterAttempt(t) ==
    /\ call[t].pc = "after"
    /\ IF coin[t].wait
       THEN /\ coin' = [coin EXCEPT ![t].success = TRUE]
            /\ call' = [call EXCEPT ![t].pc = "settle"]
       ELSE IF hop[coin[t].hopper].coin_passage_count > 1
       THEN /\ call' = [call EXCEPT ![t].pc = "settle"]
            /\ UNCHANGED coin
       ELSE /\ coin' = [coin EXCEPT ![t].attempt = @ + 1]
            /\ call' = [call EXCEPT ![t].pc = "attempt"]
    /\ UNCHANGED <<eng, pay, callers, sen, simulated, pi, hoppers, hop, phys, hist>>

\* lines 212-218: the settle delay, the flag, the return
Settle(t) ==
    /\ call[t].pc = "settle"
    /\ hop' = [hop EXCEPT ![coin[t].hopper].dispensing = FALSE]
    /\ hist' = [hist EXCEPT ![t].returned = TRUE]
    /\ call' = [call EXCEPT ![t].pc = "coin_ret"]
    /\ UNCHANGED <<eng, pay, callers, sen, simulated, pi, hoppers, phys, coin>>

\* ------------------------------------------------------------ environment

\* Mutant: every rising edge on an active sensor counted, without the debounce
SensorCallbackNoDebounce(c, level, elapsed) ==
    IF level = 0
    THEN IF ~c.sensor_active THEN [c EXCEPT !.sensor_active = TRUE] ELSE c
    ELSE IF c.sensor_active
         THEN [c EXCEPT !.sensor_active = FALSE, !.coin_passage_count = @ + 1]
         ELSE c

\* _sensor_callback, lines 130-144, on controller record c: level 0 is the
\* falling edge, level 1 the rising edge, elapsed the microseconds since the
\* recorded falling edge.
SensorCallback(c, level, elapsed) ==
    IF level = 0
    THEN IF ~c.sensor_active THEN [c EXCEPT !.sensor_active = TRUE] ELSE c
    ELSE IF c.sensor_active
         THEN [c EXCEPT !.sensor_active = FALSE,
                        !.coin_passage_count = IF elapsed > DEBOUNCE_US THEN @ + 1 ELSE @]
         ELSE c

\* pigpio delivers an edge to a controller whose callback is registered on a
\* live connection (lines 71, 94-97).
Delivered(h) == hop[h].callback /\ pi = "up"

\* A coin (or a bounce) reaches the sensor of a hopper whose motor runs.
SensorFalling(h) ==
    /\ phys[h].motor
    /\ ~phys[h].low
    /\ phys[h].pulses < MaxPulses
    /\ phys' = [phys EXCEPT ![h].low = TRUE, ![h].pulses = @ + 1]
    /\ hop' = IF Delivered(h)
              THEN [hop EXCEPT ![h] = SensorCallback(hop[h], 0, 0)]
              ELSE hop
    /\ UNCHANGED <<eng, pay, callers, sen, simulated, pi, hoppers, call, coin, hist>>

\* The sensor line goes high again after dur microseconds; a pulse longer
\* than the debounce window is a coin that has passed.
SensorRising(h, dur) ==
    /\ phys[h].low
    /\ phys' = [phys EXCEPT ![h].low = FALSE,
                            ![h].passed = IF dur > DEBOUNCE_US THEN @ + 1 ELSE @]
    /\ hop' = IF Delivered(h)
              THEN [hop EXCEPT ![h] = SensorCallback(hop[h], 1, dur)]
              ELSE hop
    /\ UNCHANGED <<eng, pay, callers, sen, simulated, pi, hoppers, call, coin, hist>>

\* The pigpio handle loses its connection (pi.connected becomes False).
ConnectionLost ==
    /\ pi = "up"
    /\ pi' = "down"
    /\ UNCHANGED <<eng, pay, callers, sen, simulated, hoppers, hop, phys, call, coin, hist>>

\* ChangeDispenser.cleanup (lines 421-435) with cleanup_all_hoppers (409-419)
\* and HopperController.cleanup (83-103), called by the owner of the
\* dispenser between two dispenses.
Cleanup ==
    /\ \A t \in Threads : call[t].pc = "idle"
    /\ pi # "none"
    /\ ~simulated
    /\ hop' = [h \in HOPPER_CONFIGS |->
                IF h \in hoppers
                THEN [hop[h] EXCEPT !.callback = FALSE,
                                    !.enabled = IF pi = "up" THEN FALSE ELSE @]
                ELSE hop[h]]
    /\ phys' = [h \in HOPPER_CONFIGS |->
                 IF h \in hoppers /\ pi = "up"
                 THEN [phys[h] EXCEPT !.motor = FALSE] ELSE phys[h]]
    /\ hoppers' = {}
    /\ pi' = "none"
    /\ UNCHANGED <<eng, pay, callers, sen, simulated, call, coin, hist>>

\* ------------------------------------------------------------ sensor callback

\* Mutant: a difference across the wraparound of the counter taken as 0
TickDiffNoWrap(t1, t2) ==
    IF t2 >= t1 THEN t2 - t1 ELSE 0

\* pigpio.tickDiff(t1, t2), used at line 141: the microseconds from tick t1 to
\* tick t2 of the 32-bit counter
tickDiff(t1, t2) ==
    IF t2 >= t1 THEN t2 - t1 ELSE ((t2 - MinTick) + (MaxTick - t1)) + 1

\* The tick gap microseconds after tick t: the counter wraps from the last
\* tick to tick 0
TickAfter(t, gap) ==
    IF t > MaxTick - gap THEN ((t - MaxTick) + (gap - 1)) + MinTick ELSE t + gap

\* _sensor_callback, lines 130-144, at the tick current_time: a falling edge
\* on an inactive sensor records the tick (line 136), a rising edge is judged
\* by the time since the recorded tick (line 141).
SensorCallbackAt(c, level, current_time) ==
    LET judged == SensorCallback(c, level, tickDiff(c.last_sensor_change, current_time))
    IN IF level = 0 /\ ~c.sensor_active
       THEN [judged EXCEPT !.last_sensor_change = current_time]
       ELSE judged

\* A controller on connected hardware, no edge reported yet
InitSensor ==
    /\ callers = {1}
    /\ InitDispenser("real")
    /\ call = [t \in Threads |-> IdleCall]
    /\ coin = [t \in Threads |-> IdleCoin]
    /\ hist = [t \in Threads |-> FreshHist]
    /\ pay = NoPayment
    /\ eng = NoEngine
    /\ \E start \in StartTicks : sen = [NoSensor EXCEPT !.tick = start]

\* pigpio reports an edge of the signal pin, gap microseconds after the edge
\* before it, and runs _sensor_callback; level 0 is the falling edge.  The
\* field since is a stopwatch beside the code: the microseconds that have
\* passed since the falling edge the callback recorded.
EdgeReported(level, gap) ==
    /\ sen.edges < MaxEdges
    /\ LET current_time == TickAfter(sen.tick, gap)
       IN sen' = [SensorCallbackAt(sen, level, current_time)
                    EXCEPT !.tick = current_time, !.level = level, !.edges = @ + 1,
                           !.since = IF level = 0 /\ ~sen.sensor_active
                                     THEN 0 ELSE sen.since + gap]
    /\ UNCHANGED <<eng, pay, callers, simulated, pi, hoppers, hop, phys, call, coin, hist>>

NextSensor == \E level \in {0, 1} : \E gap \in PulseDurations : EdgeReported(level, gap)

\* The edges of one sensor line, in any order
SpecSensor == InitSensor /\ [][NextSensor]_vars

\* ------------------------------------------------------------ specification

\* The steps of dispense_change up to its return statement
StepCall(t) ==
    \/ Entry(t) \/ CheckConnection(t) \/ Reinit(t) \/ Loop(t) \/ CoinRet(t)
    \/ Finish(t)
    \/ CoinCheck(t) \/ CoinSet(t) \/ Enable(t) \/ ResetCounters(t)
    \/ WaitReturn(t) \/ Disable(t) \/ AfterAttempt(t) \/ Settle(t)

Step(t) == StepCall(t) \/ Return(t)

Sensor ==
    \E h \in HOPPER_CONFIGS :
        \/ SensorFalling(h)
        \/ \E dur \in PulseDurations : SensorRising(h, dur)

Next ==
    \/ \E t \in Threads : \E a \in Amounts : Call(t, a)
    \/ \E t \in Threads : Step(t)
    \/ Sensor
    \/ ConnectionLost
    \/ Cleanup

\* One dispense at a time, on any hardware state
Spec == Init /\ [][Next]_vars

\* ------------------------------------------------------------ concurrent callers

\* Two threads call dispense_change once each on one ChangeDispenser whose
\* hardware is connected.
InitConc ==
    /\ callers = Threads
    /\ InitDispenser("real")
    /\ InitThreads
    /\ sen = NoSensor
    /\ pay = NoPayment
    /\ eng = NoEngine

SensorConc ==
    \E h \in HOPPER_CONFIGS :
        \/ phys[h].pulses < ConcPulses /\ SensorFalling(h)
        \/ \E dur \in PulseDurations : SensorRising(h, dur)

NextConc ==
    \/ \E t \in Threads : \E a \in ConcAmounts : Call(t, a)
    \/ \E t \in Threads : StepCall(t)
    \/ SensorConc

SpecConc == InitConc /\ [][NextConc]_vars

\* ------------------------------------------------------------ feasibility engine

\* Amounts of money are whole numbers of centavos; Pesos(n) is n pesos.
Pesos(n) == n * 100

\* Python's round(x) of an amount x to a whole number of pesos: to the nearest,
\* a half to the even neighbour
round(x) ==
    LET q == x \div 100
        r == x % 100
    IN IF r < 50 THEN q
       ELSE IF r > 50 THEN q + 1
       ELSE IF q % 2 = 0 THEN q ELSE q + 1

\* Mutant: the 1-peso count taken without the remainder
CalculateChangeBreakdownNoRemainder(change_amount) ==
    IF change_amount <= 0
    THEN [d \in {1, 5} |-> 0]
    ELSE LET rounded == round(change_amount)
         IN [d \in {1, 5} |-> IF d = 5 THEN rounded \div 5 ELSE rounded]

\* Mutant: the 1-peso count taken as what is missing to the next multiple of 5
CalculateChangeBreakdownComplement(change_amount) ==
    IF change_amount <= 0
    THEN [d \in {1, 5} |-> 0]
    ELSE LET rounded == round(change_amount)
         IN [d \in {1, 5} |-> IF d = 5 THEN rounded \div 5 ELSE (5 - (rounded % 5)) % 5]

\* calculate_change_breakdown, payment_algorithm_manager.py:67-82
calculate_change_breakdown(change_amount) ==
    IF change_amount <= 0
    THEN [d \in {1, 5} |-> 0]
    ELSE LET rounded == round(change_amount)
         IN [d \in {1, 5} |-> IF d = 5 THEN rounded \div 5 ELSE rounded % 5]

\* Mutant: the comparison of the sufficiency check turned round
CanDispenseChangeReversed(change_amount, coin_inventory, threshold) ==
    IF change_amount <= 0
    THEN [can_dispense |-> TRUE, required_coins |-> [d \in {1, 5} |-> 0]]
    ELSE LET required_coins == calculate_change_breakdown(change_amount)
         IN [can_dispense |->
                /\ \A d \in {1, 5} : ~(required_coins[d] < coin_inventory[d])
                /\ \A d \in {1, 5} :
                     threshold[d] > 0
                     => ~(coin_inventory[d] - required_coins[d] < threshold[d]),
             required_coins |-> required_coins]

\* Mutant: the reserve check with <= for <, the last coin above the threshold
\* is never given out
CanDispenseChangeStrictReserve(change_amount, coin_inventory, threshold) ==
    IF change_amount <= 0
    THEN [can_dispense |-> TRUE, required_coins |-> [d \in {1, 5} |-> 0]]
    ELSE LET required_coins == calculate_change_breakdown(change_amount)
         IN [can_dispense |->
                /\ \A d \in {1, 5} : ~(coin_inventory[d] < required_coins[d])
                /\ \A d \in {1, 5} :
                     threshold[d] > 0
                     => ~(coin_inventory[d] - required_coins[d] <= threshold[d]),
             required_coins |-> required_coins]

\* Mutant: the reserve check made on the coins required, not on those left
CanDispenseChangeReserveOnRequired(change_amount, coin_inventory, threshold) ==
    IF change_amount <= 0
    THEN [can_dispense |-> TRUE, required_coins |-> [d \in {1, 5} |-> 0]]
    ELSE LET required_coins == calculate_change_breakdown(change_amount)
         IN [can_dispense |->
                /\ \A d \in {1, 5} : ~(coin_inventory[d] < required_coins[d])
                /\ \A d \in {1, 5} :
                     threshold[d] > 0 => ~(required_coins[d] < threshold[d]),
             required_coins |-> required_coins]

\* can_dispense_change, payment_algorithm_manager.py:84-114, on the stored
\* inventory and the thresholds read at construction: the verdict and the
\* required coins it returns
can_dispense_change(change_amount, coin_inventory, threshold) ==
    IF change_amount <= 0
    THEN [can_dispense |-> TRUE, required_coins |-> [d \in {1, 5} |-> 0]]
    ELSE LET required_coins == calculate_change_breakdown(change_amount)
         IN [can_dispense |->
                /\ \A d \in {1, 5} : ~(coin_inventory[d] < required_coins[d])
                /\ \A d \in {1, 5} :
                     threshold[d] > 0
                     => ~(coin_inventory[d] - required_coins[d] < threshold[d]),
             required_coins |-> required_coins]

\* COIN_DENOMINATIONS' reserve logic, lines 126-129 and 232-235: the coins of
\* denomination d above the threshold
available(coin_inventory, threshold, d) ==
    LET th == threshold[d]
        left == coin_inventory[d] - (IF th > 0 THEN th ELSE 0)
    IN IF left > 0 THEN left ELSE 0

\* The largest member of a non-empty set of numbers
Max(S) == CHOOSE x \in S : \A y \in S : y <= x

\* line 257: the tender denominations; line 18: BILL_DENOMINATIONS
accepted == {1, 5, 10, 20, 50, 100}
BILL_DENOMINATIONS == <<20, 50, 100, 200, 500, 1000>>

\* Mutant: the viable denominations tried smallest first
FindBestSmallestFitting(total_cost, coin_inventory, threshold) ==
    LET max_possible_change == available(coin_inventory, threshold, 5) * 5
                               + available(coin_inventory, threshold, 1)
        can(change) == can_dispense_change(Pesos(change), coin_inventory, threshold)
        best_change == Max({change \in 0..max_possible_change : can(change).can_dispense})
        base == round(total_cost)
        exact == [amount |-> Pesos(base), change |-> 0,
                  required_coins |-> [d \in {1, 5} |-> 0]]
        ceiling == base + best_change
        viable == {d \in accepted : d >= base /\ d <= ceiling}
        fitting == {d \in viable : ~(d - base < 0) /\ can(d - base).can_dispense}
    IN IF best_change = 0 THEN exact
       ELSE IF fitting = {} THEN exact
       ELSE LET chosen_amount == CHOOSE d \in fitting : \A e \in fitting : d <= e
            IN [amount |-> Pesos(chosen_amount),
                change |-> Pesos(chosen_amount - base),
                required_coins |-> can(chosen_amount - base).required_coins]

\* Mutant: the largest viable denomination taken without the feasibility
\* check of its change
FindBestUnchecked(total_cost, coin_inventory, threshold) ==
    LET max_possible_change == available(coin_inventory, threshold, 5) * 5
                               + available(coin_inventory, threshold, 1)
        can(change) == can_dispense_change(Pesos(change), coin_inventory, threshold)
        best_change == Max({change \in 0..max_possible_change : can(change).can_dispense})
        base == round(total_cost)
        exact == [amount |-> Pesos(base), change |-> 0,
                  required_coins |-> [d \in {1, 5} |-> 0]]
        ceiling == base + best_change
        viable == {d \in accepted : d >= base /\ d <= ceiling}
        fitting == {d \in viable : ~(d - base < 0)}
    IN IF best_change = 0 THEN exact
       ELSE IF fitting = {} THEN exact
       ELSE LET chosen_amount == Max(fitting)
            IN [amount |-> Pesos(chosen_amount),
                change |-> Pesos(chosen_amount - base),
                required_coins |-> can(chosen_amount - base).required_coins]

\* find_best_payment_amount, lines 216-291.  The downward scan of lines
\* 241-246 stops at the largest feasible change; base is int(round(total_cost)).
find_best_payment_amount(total_cost, coin_inventory, threshold) ==
    LET max_possible_change == available(coin_inventory, threshold, 5) * 5
                               + available(coin_inventory, threshold, 1)
        can(change) == can_dispense_change(Pesos(change), coin_inventory, threshold)
        best_change == Max({change \in 0..max_possible_change : can(change).can_dispense})
        base == round(total_cost)
        exact == [amount |-> Pesos(base), change |-> 0,
                  required_coins |-> [d \in {1, 5} |-> 0]]
        ceiling == base + best_change
        viable == {d \in accepted : d >= base /\ d <= ceiling}
        fitting == {d \in viable : ~(d - base < 0) /\ can(d - base).can_dispense}
    IN IF best_change = 0 THEN exact
       ELSE IF fitting = {} THEN exact
       ELSE LET chosen_amount == Max(fitting)
            IN [amount |-> Pesos(chosen_amount),
                change |-> Pesos(chosen_amount - base),
                required_coins |-> can(chosen_amount - base).required_coins]

\* Mutant: a payment equal to the price refused
ValidatePaymentStrict(total_cost, payment_amount, coin_inventory, threshold) ==
    IF payment_amount <= total_cost
    THEN [is_valid |-> FALSE, has_info |-> FALSE, change_amount |-> 0,
          required_coins |-> [d \in {1, 5} |-> 0]]
    ELSE LET change_amount == payment_amount - total_cost
             verdict == can_dispense_change(change_amount, coin_inventory, threshold)
         IN IF ~verdict.can_dispense
            THEN [is_valid |-> FALSE, has_info |-> FALSE, change_amount |-> 0,
                  required_coins |-> [d \in {1, 5} |-> 0]]
            ELSE [is_valid |-> TRUE, has_info |-> TRUE, change_amount |-> change_amount,
                  required_coins |-> verdict.required_coins]

\* validate_payment, lines 190-214: is_valid, and payment_info, which is the
\* empty dict (has_info false, nothing in the other fields) on both refusals
validate_payment(total_cost, payment_amount, coin_inventory, threshold) ==
    IF payment_amount < total_cost
    THEN [is_valid |-> FALSE, has_info |-> FALSE, change_amount |-> 0,
          required_coins |-> [d \in {1, 5} |-> 0]]
    ELSE LET change_amount == payment_amount - total_cost
             verdict == can_dispense_change(change_amount, coin_inventory, threshold)
         IN IF ~verdict.can_dispense
            THEN [is_valid |-> FALSE, has_info |-> FALSE, change_amount |-> 0,
                  required_coins |-> [d \in {1, 5} |-> 0]]
            ELSE [is_valid |-> TRUE, has_info |-> TRUE, change_amount |-> change_amount,
                  required_coins |-> verdict.required_coins]

\* line 184: priority_order
priority_order(priority) ==
    CASE priority = "highest" -> 0
      [] priority = "high" -> 1
      [] priority = "medium" -> 2
      [] priority = "low" -> 3
      [] OTHER -> 4

\* line 185, the sort key (priority, amount): a is not after b
KeyLE(a, b) ==
    \/ priority_order(a.priority) < priority_order(b.priority)
    \/ /\ priority_order(a.priority) = priority_order(b.priority)
       /\ a.amount <= b.amount

\* list.sort of line 185, a stable sort: each element goes behind the elements
\* before it that are not after it
RECURSIVE sort(_)
sort(seq) ==
    IF seq = << >> THEN << >>
    ELSE LET x == seq[Len(seq)]
             front == sort(SubSeq(seq, 1, Len(seq) - 1))
             k == Cardinality({i \in 1..Len(front) : KeyLE(front[i], x)})
         IN SubSeq(front, 1, k) \o <<x>> \o SubSeq(front, k + 1, Len(front))

\* The smaller of two numbers
min(a, b) == IF a <= b THEN a ELSE b

\* Mutant: a bill is suggested when its change is within the largest change,
\* without the feasibility check of line 174
FindOptimalBillsUnchecked(total_cost, coin_inventory, threshold, limit) ==
    LET max_change_amount ==
            min(Pesos(available(coin_inventory, threshold, 5) * 5
                      + available(coin_inventory, threshold, 1)), limit)
        can(change_amount) == can_dispense_change(change_amount, coin_inventory, threshold)
        exact(priority) == [amount |-> total_cost, change |-> 0, priority |-> priority]
        last_small == min(max_change_amount \div 100 + 1, 21) - 1
        small == SelectSeq([c \in 1..last_small |->
                               [amount |-> total_cost + Pesos(c), change |-> Pesos(c),
                                priority |-> IF c <= 5 THEN "high" ELSE "medium"]],
                           LAMBDA sg : can(sg.change).can_dispense)
        bills == SelectSeq([i \in 1..Len(BILL_DENOMINATIONS) |->
                               [amount |-> Pesos(BILL_DENOMINATIONS[i]),
                                change |-> Pesos(BILL_DENOMINATIONS[i]) - total_cost,
                                priority |-> "medium"]],
                           LAMBDA sg : /\ sg.amount > total_cost
                                       /\ sg.change <= max_change_amount)
        suggestions == sort(<<exact("highest")>> \o small \o bills)
    IN IF max_change_amount <= 0
       THEN <<exact("high")>>
       ELSE SubSeq(suggestions, 1, min(5, Len(suggestions)))

\* find_optimal_payment_amounts, lines 116-188; int(max_change_amount) is the
\* whole pesos of the amount.
find_optimal_payment_amounts(total_cost, coin_inventory, threshold, limit) ==
    LET max_change_amount ==
            min(Pesos(available(coin_inventory, threshold, 5) * 5
                      + available(coin_inventory, threshold, 1)), limit)
        can(change_amount) == can_dispense_change(change_amount, coin_inventory, threshold)
        exact(priority) == [amount |-> total_cost, change |-> 0, priority |-> priority]
        last_small == min(max_change_amount \div 100 + 1, 21) - 1
        small == SelectSeq([c \in 1..last_small |->
                               [amount |-> total_cost + Pesos(c), change |-> Pesos(c),
                                priority |-> IF c <= 5 THEN "high" ELSE "medium"]],
                           LAMBDA sg : can(sg.change).can_dispense)
        bills == SelectSeq([i \in 1..Len(BILL_DENOMINATIONS) |->
                               [amount |-> Pesos(BILL_DENOMINATIONS[i]),
                                change |-> Pesos(BILL_DENOMINATIONS[i]) - total_cost,
                                priority |-> "medium"]],
                           LAMBDA sg : /\ sg.amount > total_cost
                                       /\ sg.change <= max_change_amount
                                       /\ can(sg.change).can_dispense)
        suggestions == sort(<<exact("highest")>> \o small \o bills)
    IN IF max_change_amount <= 0
       THEN <<exact("high")>>
       ELSE SubSeq(suggestions, 1, min(5, Len(suggestions)))

\* PaymentAlgorithmManager.__init__ (lines 14-45) on each stored inventory and
\* each setting, for a print job of each price
InitEngine ==
    /\ callers = {1}
    /\ InitDispenser("real")
    /\ InitThreads
    /\ sen = NoSensor
    /\ pay = NoPayment
    /\ \E cost \in EngineCosts : \E n1 \in CoinCounts : \E n5 \in CoinCounts :
       \E th1 \in ThresholdValues : \E th5 \in ThresholdValues :
       \E limit \in ChangeLimits :
          eng = [NoEngine EXCEPT !.pc = "ready", !.total_cost = cost,
                                 !.inventory = [d \in {1, 5} |-> IF d = 1 THEN n1 ELSE n5],
                                 !.threshold = [d \in {1, 5} |-> IF d = 1 THEN th1 ELSE th5],
                                 !.MAX_CHANGE_LIMIT = limit,
                                 !.settings =
                                     [min_coin_threshold |->
                                          [d \in {1, 5} |-> IF d = 1 THEN th1 ELSE th5],
                                      max_change_limit |-> limit]]

\* A call of calculate_change_breakdown(C) for a whole amount C
CalculateChangeBreakdown(C) ==
    /\ eng.pc = "ready"
    /\ eng' = [eng EXCEPT !.pc = "calculate_change_breakdown", !.arg = Pesos(C),
                          !.required_coins = calculate_change_breakdown(Pesos(C))]
    /\ UNCHANGED <<pay, callers, sen, simulated, pi, hoppers, hop, phys, call, coin, hist>>

\* A call of can_dispense_change(C) for a whole amount C
CanDispenseChange(C) ==
    /\ eng.pc = "ready"
    /\ LET verdict == can_dispense_change(Pesos(C), eng.inventory, eng.threshold)
       IN eng' = [eng EXCEPT !.pc = "can_dispense_change", !.arg = Pesos(C),
                             !.can_dispense = verdict.can_dispense,
                             !.required_coins = verdict.required_coins]
    /\ UNCHANGED <<pay, callers, sen, simulated, pi, hoppers, hop, phys, call, coin, hist>>

\* A call of validate_payment(total_cost, payment_amount)
ValidatePayment(payment_amount) ==
    /\ eng.pc = "ready"
    /\ LET info == validate_payment(eng.total_cost, payment_amount,
                                    eng.inventory, eng.threshold)
       IN eng' = [eng EXCEPT !.pc = "validate_payment", !.arg = payment_amount,
                             !.can_dispense = info.is_valid,
                             !.has_info = info.has_info,
                             !.change = info.change_amount,
                             !.required_coins = info.required_coins]
    /\ UNCHANGED <<pay, callers, sen, simulated, pi, hoppers, hop, phys, call, coin, hist>>

\* A call of find_best_payment_amount(total_cost)
FindBestPaymentAmount ==
    /\ eng.pc = "ready"
    /\ LET best == find_best_payment_amount(eng.total_cost, eng.inventory, eng.threshold)
       IN eng' = [eng EXCEPT !.pc = "find_best_payment_amount",
                             !.amount = best.amount, !.change = best.change,
                             !.required_coins = best.required_coins]
    /\ UNCHANGED <<pay, callers, sen, simulated, pi, hoppers, hop, phys, call, coin, hist>>

\* A call of find_optimal_payment_amounts(total_cost)
FindOptimalPaymentAmounts ==
    /\ eng.pc = "ready"
    /\ eng' = [eng EXCEPT !.pc = "find_optimal_payment_amounts",
                          !.suggestions =
                              find_optimal_payment_amounts(eng.total_cost, eng.inventory,
                                                           eng.threshold,
                                                           eng.MAX_CHANGE_LIMIT)]
    /\ UNCHANGED <<pay, callers, sen, simulated, pi, hoppers, hop, phys, call, coin, hist>>

NextEngine ==
    \/ \E C \in ChangeAmounts : CalculateChangeBreakdown(C)
    \/ \E C \in ChangeAmounts : CanDispenseChange(C)
    \/ \E payment_amount \in PaymentAmounts : ValidatePayment(payment_amount)
    \/ FindBestPaymentAmount
    \/ FindOptimalPaymentAmounts

\* One call on the feasibility engine
SpecEngine == InitEngine /\ [][NextEngine]_vars

\* ------------------------------------------------------------ stores

\* PaymentAlgorithmManager.__init__ (lines 14-45) on each content of the
\* settings table and each stored inventory
InitStore ==
    /\ callers = {1}
    /\ InitDispenser("real")
    /\ InitThreads
    /\ sen = NoSensor
    /\ pay = NoPayment
    /\ \E cost \in StoreCosts : \E n1 \in StoredCounts : \E n5 \in StoredCounts :
       \E th1 \in ThresholdValues : \E th5 \in ThresholdValues :
       \E limit \in ChangeLimits :
          eng = [NoEngine EXCEPT !.pc = "ready", !.total_cost = cost,
                                 !.inventory = [d \in {1, 5} |-> IF d = 1 THEN n1 ELSE n5],
                                 !.threshold = [d \in {1, 5} |-> IF d = 1 THEN th1 ELSE th5],
                                 !.MAX_CHANGE_LIMIT = limit,
                                 !.settings =
                                     [min_coin_threshold |->
                                          [d \in {1, 5} |-> IF d = 1 THEN th1 ELSE th5],
                                      max_change_limit |-> limit]]

\* The settings table gets new values (the table db_manager.get_setting
\* reads, lines 21-22 and 41) while the engine exists.
SetSetting(th1, th5, limit) ==
    /\ eng.pc = "ready"
    /\ eng' = [eng EXCEPT !.settings =
                   [min_coin_threshold |-> [d \in {1, 5} |-> IF d = 1 THEN th1 ELSE th5],
                    max_change_limit |-> limit]]
    /\ UNCHANGED <<pay, callers, sen, simulated, pi, hoppers, hop, phys, call, coin, hist>>

\* Mutant: the deduction without the clamp at zero
NewCountUnclamped(current, dispensed_count) == current - dispensed_count

\* db_threader.py:234-235 and payment_algorithm_manager.py:344: the count
\* stored after dispensed_count coins left
new_count(current, dispensed_count) ==
    IF current - dispensed_count > 0 THEN current - dispensed_count ELSE 0

\* DatabaseThreadManager._handle_update_coin_inventory, db_threader.py:216-245:
\* both counts are read, reduced and written back
HandleUpdateCoinInventory(coins_1, coins_5) ==
    /\ eng.pc = "ready"
    /\ eng' = [eng EXCEPT !.pc = "update_coin_inventory",
                          !.before = eng.inventory,
                          !.dispensed = [d \in {1, 5} |-> IF d = 1 THEN coins_1 ELSE coins_5],
                          !.inventory = [d \in {1, 5} |->
                                           new_count(eng.inventory[d],
                                                     IF d = 1 THEN coins_1 ELSE coins_5)]]
    /\ UNCHANGED <<pay, callers, sen, simulated, pi, hoppers, hop, phys, call, coin, hist>>

\* update_coin_inventory_after_dispense, payment_algorithm_manager.py:335-351:
\* only a denomination with a positive dispensed count is written
UpdateCoinInventoryAfterDispense(dispensed_coins) ==
    /\ eng.pc = "ready"
    /\ eng' = [eng EXCEPT !.pc = "update_coin_inventory_after_dispense",
                          !.before = eng.inventory,
                          !.dispensed = dispensed_coins,
                          !.inventory = [d \in {1, 5} |->
                                           IF dispensed_coins[d] > 0
                                           THEN new_count(eng.inventory[d], dispensed_coins[d])
                                           ELSE eng.inventory[d]]]
    /\ UNCHANGED <<pay, callers, sen, simulated, pi, hoppers, hop, phys, call, coin, hist>>

\* The call on the engine or the store has returned; its result is dropped.
EngineReturn ==
    /\ eng.pc \in {"can_dispense_change", "find_best_payment_amount",
                   "update_coin_inventory", "update_coin_inventory_after_dispense"}
    /\ eng' = [eng EXCEPT !.pc = "ready", !.arg = 0, !.can_dispense = FALSE,
                          !.required_coins = [d \in {1, 5} |-> 0],
                          !.amount = 0, !.change = 0,
                          !.dispensed = [d \in {1, 5} |-> 0],
                          !.before = [d \in {1, 5} |-> 0]]
    /\ UNCHANGED <<pay, callers, sen, simulated, pi, hoppers, hop, phys, call, coin, hist>>

NextStore ==
    \/ \E th1 \in ThresholdValues : \E th5 \in ThresholdValues :
       \E limit \in ChangeLimits : SetSetting(th1, th5, limit)
    \/ \E coins_1 \in Dispensed : \E coins_5 \in Dispensed :
          HandleUpdateCoinInventory(coins_1, coins_5)
    \/ \E dispensed_coins \in [{1, 5} -> Dispensed] :
          UpdateCoinInventoryAfterDispense(dispensed_coins)
    \/ \E C \in ChangeAmounts : CanDispenseChange(C)
    \/ FindBestPaymentAmount
    \/ EngineReturn

\* Calls on one engine, with the settings and the inventory changing between
\* them
SpecStore == InitStore /\ [][NextStore]_vars

\* ------------------------------------------------------------ payment screen

\* set_payment_data (model.py:180-185) and enable_payment_mode (244-253) for a
\* print job of each price, on each stored inventory; the thresholds as
\* PaymentAlgorithmManager.__init__ read them.
InitPay ==
    /\ callers = {1}
    /\ \E variant \in {"real", "nolib"} : InitDispenser(variant)
    /\ InitThreads
    /\ sen = NoSensor
    /\ \E cost \in Costs : \E n1 \in StoredCounts : \E n5 \in StoredCounts :
       \E th \in Thresholds :
          pay = [NoPayment EXCEPT !.pc = "paying", !.total_cost = cost,
                                  !.payment_ready = TRUE,
                                  !.inventory = [d \in {1, 5} |-> IF d = 1 THEN n1 ELSE n5],
                                  !.inventory0 = [d \in {1, 5} |-> IF d = 1 THEN n1 ELSE n5],
                                  !.threshold = [d \in {1, 5} |-> th]]
    /\ eng = NoEngine

\* on_coin_inserted / on_bill_inserted (model.py:265-285) with
\* _update_payment_status (297-320): the value is added, and a sufficient
\* amount sets _payment_completing, disables payment mode and schedules
\* _proceed_with_payment.
CoinInserted(v) ==
    /\ pay.payment_ready
    /\ pay.amount_received + v - pay.total_cost <= MaxAmount
    /\ LET received == pay.amount_received + v
           p1 == [pay EXCEPT !.amount_received = received,
                             !.cash_received = [@ EXCEPT ![v] = @ + 1]]
       IN pay' = IF ~p1.completing /\ received >= p1.total_cost /\ p1.total_cost > 0
                 THEN [p1 EXCEPT !.completing = TRUE, !.payment_ready = FALSE,
                                 !.pc = "proceed"]
                 ELSE p1
    /\ UNCHANGED <<eng, callers, sen, simulated, pi, hoppers, hop, phys, call, coin, hist>>

\* _proceed_with_payment (model.py:355-370) calling complete_payment
\* (703-760, the definition in effect): the change is amount_received minus
\* total_cost; a positive change starts a DispenseThread on it, otherwise
\* _start_printing (792-836) leads to the thank-you screen.  No dispense
\* thread is running and the dispenser exists when the first transaction of
\* the screen gets here, so lines 722-733 do nothing.
CompletePayment ==
    /\ pay.pc = "proceed"
    /\ LET change_amount == pay.amount_received - pay.total_cost
       IN IF change_amount > 0
          THEN /\ call' = [call EXCEPT ![1] = [IdleCall EXCEPT !.pc = "entry",
                                                              !.amount = change_amount]]
               /\ pay' = [pay EXCEPT !.pc = "dispensing"]
          ELSE /\ pay' = [pay EXCEPT !.pc = "thank_you"]
               /\ UNCHANGED call
    /\ UNCHANGED <<eng, callers, sen, simulated, pi, hoppers, hop, phys, coin, hist>>

\* DispenseThread.run emits the result (hopper_manager.py:463-469) and
\* _on_dispensing_finished (model.py:762-790, the definition in effect) resets
\* _payment_completing and starts printing, whatever the result.
DispensingFinished ==
    /\ pay.pc = "dispensing"
    /\ call[1].pc = "done"
    /\ pay' = [pay EXCEPT !.pc = "thank_you", !.completing = FALSE,
                          !.result = call[1].result]
    /\ call' = [call EXCEPT ![1] = IdleCall]
    /\ coin' = [coin EXCEPT ![1] = IdleCoin]
    /\ hist' = [hist EXCEPT ![1] = FreshHist]
    /\ UNCHANGED <<eng, callers, sen, simulated, pi, hoppers, hop, phys>>

\* The coins of denomination d among the cash received
CoinsReceived(d) == IF d \in InsertValues THEN pay.cash_received[d] ELSE 0

\* on_print_successful (main_app.py:279-290) with
\* _update_coin_inventory_after_print (427-464) and
\* _update_coin_inventory_items (466-511): the cash received is added to the
\* stored counts; change_dispensed is an attribute the payment model never
\* has, so nothing is subtracted.
PrintSuccessful ==
    /\ pay.pc = "thank_you"
    /\ pay' = [pay EXCEPT !.pc = "printed",
                          !.inventory = [d \in {1, 5} |-> @[d] + CoinsReceived(d)]]
    /\ UNCHANGED <<eng, callers, sen, simulated, pi, hoppers, hop, phys, call, coin, hist>>

\* go_back (model.py:875-884), the slot of the back button, which stays
\* enabled while change is dispensed.  _log_partial_payment (677-701) sets
\* the stored count of each denomination received to the number received;
\* on_leave (636-675) stops a running dispense thread with QThread.terminate,
\* wherever it is, and calls ChangeDispenser.cleanup (hopper_manager.py:
\* 421-435): on a live handle every hopper is disabled and its callback
\* cancelled, and the handle is dropped; reset_payment_state (838-873) clears
\* the amounts.  A thread whose dispense_change has returned is left to end.
GoBack ==
    /\ pay.pc \in {"paying", "proceed", "dispensing"}
    /\ call' = IF pay.pc = "dispensing" /\ call[1].pc # "done"
               THEN [call EXCEPT ![1].pc = "terminated"]
               ELSE call
    /\ IF pi # "none" /\ ~simulated
       THEN /\ hop' = [h \in HOPPER_CONFIGS |->
                        IF h \in hoppers
                        THEN [hop[h] EXCEPT !.callback = FALSE,
                                            !.enabled = IF pi = "up" THEN FALSE ELSE @]
                        ELSE hop[h]]
            /\ phys' = [h \in HOPPER_CONFIGS |->
                         IF h \in hoppers /\ pi = "up"
                         THEN [phys[h] EXCEPT !.motor = FALSE] ELSE phys[h]]
            /\ hoppers' = {}
            /\ pi' = "none"
       ELSE UNCHANGED <<hop, phys, hoppers, pi>>
    /\ pay' = [pay EXCEPT !.pc = "left", !.completing = FALSE, !.payment_ready = FALSE,
                          !.amount_received = 0, !.total_cost = 0,
                          !.cash_received = [v \in InsertValues |-> 0],
                          !.inventory = [d \in {1, 5} |->
                                           IF pay.amount_received > 0 /\ CoinsReceived(d) > 0
                                           THEN CoinsReceived(d) ELSE @[d]]]
    /\ UNCHANGED <<eng, callers, sen, simulated, coin, hist>>

NextPay ==
    \/ \E v \in InsertValues : CoinInserted(v)
    \/ CompletePayment
    \/ StepCall(1)
    \/ Sensor
    \/ DispensingFinished
    \/ PrintSuccessful
    \/ GoBack

\* One transaction of the payment screen
SpecPay == InitPay /\ [][NextPay]_vars

\* ------------------------------------------------------------ claims

Count(t) == hop[coin[t].hopper].coin_passage_count

AllTimeouts(s, n) == \A j \in 1..n : s[j] = "timeout"

\* C1: on real hardware the coins_5 and coins_1 a dispense_change call returns
\* equal the passages at hopper B's and hopper A's sensor during the call.
C1_ReportsWhatPassed ==
    \A t \in Threads :
        (call[t].pc = "done" /\ ~simulated)
        => /\ call[t].result.coins_5 = phys["B"].passed
           /\ call[t].result.coins_1 = phys["A"].passed

\* C2: an attempt of dispense_single_coin in which more than one passage was
\* counted is not a success: when the attempt is over (the motor has been
\* switched off) and its counter is above one, the wait has returned False,
\* so that the call breaks out of the retry loop with failure.
C2_OverDispenseFails ==
    \A t \in Threads :
        (call[t].pc = "after" /\ Count(t) > 1) => ~coin[t].wait

\* A thread is inside dispense_single_coin, past the dispensing flag
InCoin(t) == call[t].pc \in {"attempt", "reset", "wait", "disable", "after", "settle"}

\* C3: two concurrent dispense_change calls are serialized: while one call is
\* inside dispense_single_coin (driving a motor and reading a counter), the
\* other call is not.
C3_Serialized ==
    \A t1 \in Threads : \A t2 \in Threads :
        (t1 # t2 /\ InCoin(t1)) => ~InCoin(t2)

\* C4: when the transaction is over (the change dispensed, the print job done
\* and every inventory update of the orchestrator applied), the stored count
\* of each coin is the count before, plus the coins received, minus the coins
\* the dispense result reports.
C4_InventoryReduced ==
    pay.pc = "printed"
    => /\ pay.inventory[1] = pay.inventory0[1] + CoinsReceived(1) - pay.result.coins_1
       /\ pay.inventory[5] = pay.inventory0[5] + CoinsReceived(5) - pay.result.coins_5

\* C5: a hopper motor runs only for a change amount that can_dispense_change
\* accepts on the stored inventory.
C5_NoMotorForRejected ==
    (pay.pc = "dispensing" /\ \E h \in HOPPER_CONFIGS : phys[h].motor)
    => can_dispense_change(Pesos(call[1].amount), pay.inventory,
                           pay.threshold).can_dispense

\* C6: dispense_change never raises and always returns a result, whatever the
\* hardware state (connected, lost, a reconnect failing after hopper A was
\* rebound, hoppers removed by an earlier cleanup).
C6_NeverRaises ==
    \A t \in Threads :
        /\ call[t].pc # "raised"
        /\ call[t].pc = "done" => call[t].result # NoResult

C6_Witness ==
    /\ ~simulated
    /\ call[1].pc = "done"
    /\ call[1].result.error = "pigpio_connection_failed"
    /\ hoppers = {"A"}

\* C7: the step of dispense_change for an amount <= 0 returns success with
\* zero counts and changes nothing else: no connection check, no reconnect,
\* no write to a pin, no status callback, the hardware state as it was.
C7_NonPositiveAmount ==
    [][\A t \in Threads :
         (call[t].pc = "entry" /\ call[t].amount <= 0 /\ call'[t] # call[t])
         => /\ call'[t].pc = "done"
            /\ call'[t].result = Result(TRUE, 0, 0, FALSE, 0, 0, "none")
            /\ hist'[t] = FreshHist
            /\ UNCHANGED <<simulated, pi, hoppers, hop, phys>>]_vars

C7_Witness ==
    /\ call[1].pc = "done"
    /\ call[1].amount = 0
    /\ call[1].result.success
    /\ hist[1] = FreshHist

\* C8: dispense_single_coin makes at most MAX_RETRY_ATTEMPTS attempts, and
\* when every attempt timed out (and the last one counted no over-dispense)
\* it has made exactly MAX_RETRY_ATTEMPTS attempts and returns False.
C8_BoundedRetries ==
    \A t \in Threads :
        /\ hist[t].attempts <= MAX_RETRY_ATTEMPTS
        /\ Len(hist[t].outcomes) <= hist[t].attempts
        /\ (/\ call[t].pc = "coin_ret"
            /\ hist[t].returned
            /\ AllTimeouts(hist[t].outcomes, Len(hist[t].outcomes))
            /\ Count(t) <= 1)
           => /\ hist[t].attempts = MAX_RETRY_ATTEMPTS
              /\ ~coin[t].success

C8_Witness ==
    /\ call[1].pc = "coin_ret"
    /\ hist[1].returned
    /\ hist[1].outcomes = [j \in 1..MAX_RETRY_ATTEMPTS |-> "timeout"]
    /\ Count(1) = 0
    /\ ~coin[1].success

\* C9: once attempts 1..k-1 have timed out and attempt k has seen exactly one
\* passage, the call makes no further attempt: it has made exactly k attempts
\* and it returns True.
C9_SuccessAtAttemptK ==
    \A t \in Threads :
        \A k \in 1..Len(hist[t].outcomes) :
            (hist[t].outcomes[k] = "one" /\ AllTimeouts(hist[t].outcomes, k - 1))
            => /\ Len(hist[t].outcomes) = k
               /\ hist[t].attempts = k
               /\ hist[t].returned => coin[t].success

C9_Witness ==
    /\ hist[1].returned
    /\ coin[1].success
    /\ Len(hist[1].outcomes) = MAX_RETRY_ATTEMPTS
    /\ hist[1].attempts = MAX_RETRY_ATTEMPTS

\* C10: after the first failed coin of a denomination no further coin of that
\* denomination is handled in the call, and the ones are still handled after
\* a failure among the fives.
C10_StopAtFirstFailure ==
    \A t \in Threads :
        /\ hist[t].failed[5] => hist[t].tried[5] = call[t].actual_fives + 1
        /\ hist[t].failed[1] => hist[t].tried[1] = call[t].actual_ones + 1
        /\ (call[t].pc = "done" /\ hist[t].failed[5] /\ call[t].num_ones > 0)
           => hist[t].tried[1] >= 1

C10_Witness ==
    /\ call[1].pc = "done"
    /\ call[1].num_fives = 2
    /\ hist[1].failed[5]
    /\ hist[1].tried[5] = 1
    /\ hist[1].tried[1] = 2
    /\ call[1].result.coins_1 = 2

\* C11: the result of a dispense_change call for an amount > 0 that passed the
\* hardware check (no error key) reports success, carries both totals with
\* actual_change = 5 * coins_5 + coins_1 and expected_change = amount, and its
\* counts do not exceed the requested amount // 5 and amount % 5, also when
\* fewer coins than requested were dispensed.
C11_ResultTotals ==
    \A t \in Threads :
        (call[t].pc = "done" /\ call[t].amount > 0 /\ call[t].result.error = "none")
        => /\ call[t].result.success
           /\ call[t].result.has_totals
           /\ call[t].result.actual_change
                = 5 * call[t].result.coins_5 + call[t].result.coins_1
           /\ call[t].result.expected_change = call[t].amount
           /\ call[t].result.coins_5 <= call[t].amount \div 5
           /\ call[t].result.coins_1 <= call[t].amount % 5

C11_Witness ==
    /\ call[1].pc = "done"
    /\ call[1].amount = MaxAmount
    /\ call[1].result.success
    /\ call[1].result.coins_5 = 1
    /\ call[1].result.coins_1 = 0
    /\ call[1].result.actual_change < call[1].result.expected_change

\* The whole amount C of the call the engine has answered
ArgPesos == eng.arg \div 100

\* The verdict the claims give for a whole amount C > 0: infeasible exactly
\* when a denomination is short or a reserve threshold would be violated
Infeasible(C, inventory, threshold) ==
    \/ inventory[5] < C \div 5
    \/ inventory[1] < C % 5
    \/ threshold[5] > 0 /\ inventory[5] - (C \div 5) < threshold[5]
    \/ threshold[1] > 0 /\ inventory[1] - (C % 5) < threshold[1]

\* C12 as stated: can_dispense_change(C) is true for C <= 0, for C > 0 false
\* exactly when a denomination is short or a reserve threshold would be
\* violated, and the returned required_coins is {5: C // 5, 1: C % 5} for
\* every whole C.
C12_AsStated ==
    eng.pc = "can_dispense_change"
    => /\ ArgPesos <= 0 => eng.can_dispense
       /\ ArgPesos > 0
          => (~eng.can_dispense <=> Infeasible(ArgPesos, eng.inventory, eng.threshold))
       /\ eng.required_coins[5] = ArgPesos \div 5
       /\ eng.required_coins[1] = ArgPesos % 5

\* C12 amended: the same verdicts, and the returned required_coins is
\* {5: C // 5, 1: C % 5} for C >= 0 and all zero for C < 0.
C12_CanDispenseChange ==
    eng.pc = "can_dispense_change"
    => /\ ArgPesos <= 0 => eng.can_dispense
       /\ ArgPesos > 0
          => (~eng.can_dispense <=> Infeasible(ArgPesos, eng.inventory, eng.threshold))
       /\ ArgPesos >= 0
          => /\ eng.required_coins[5] = ArgPesos \div 5
             /\ eng.required_coins[1] = ArgPesos % 5
       /\ ArgPesos < 0
          => /\ eng.required_coins[5] = 0
             /\ eng.required_coins[1] = 0

C12_Witness ==
    /\ eng.pc = "can_dispense_change"
    /\ ArgPesos = 7
    /\ eng.inventory[5] = 1
    /\ eng.inventory[1] = 2
    /\ eng.threshold[5] = 1
    /\ ~eng.can_dispense
    /\ eng.required_coins[5] = 1
    /\ eng.required_coins[1] = 2

\* The inventories the model knows
Inventories == [{1, 5} -> CoinCounts]

\* C13: for an amount C > 0 that can_dispense_change found feasible under the
\* stored inventory I, every inventory with fewer fives or fewer ones than
\* required makes it infeasible, and every inventory pointwise >= I (so also I
\* itself, raised back) keeps it feasible.
C13_Monotonic ==
    (eng.pc = "can_dispense_change" /\ ArgPesos > 0 /\ eng.can_dispense)
    => \A other \in Inventories :
          LET verdict == can_dispense_change(eng.arg, other, eng.threshold)
          IN /\ (other[5] < eng.required_coins[5] \/ other[1] < eng.required_coins[1])
                => ~verdict.can_dispense
             /\ (other[5] >= eng.inventory[5] /\ other[1] >= eng.inventory[1])
                => verdict.can_dispense

C13_Witness ==
    /\ eng.pc = "can_dispense_change"
    /\ ArgPesos = 7
    /\ eng.can_dispense
    /\ eng.inventory[5] = 1
    /\ eng.inventory[1] = 2
    /\ ~can_dispense_change(eng.arg, [eng.inventory EXCEPT ![1] = 1],
                            eng.threshold).can_dispense

\* C14: for every total_cost, inventory and thresholds, find_best_payment_amount
\* returns amount >= total_cost, the returned change equals amount - total_cost,
\* and can_dispense_change accepts that change on the same inventory.
C14_BestPaymentCoversCost ==
    eng.pc = "find_best_payment_amount"
    => /\ eng.amount >= eng.total_cost
       /\ eng.change = eng.amount - eng.total_cost
       /\ can_dispense_change(eng.change, eng.inventory, eng.threshold).can_dispense

\* The tender denominations D >= total_cost whose change D - total_cost
\* can_dispense_change accepts on the stored inventory
Payable ==
    {D \in accepted :
        /\ Pesos(D) >= eng.total_cost
        /\ can_dispense_change(Pesos(D) - eng.total_cost, eng.inventory,
                               eng.threshold).can_dispense}

\* C15: find_best_payment_amount returns the largest tender denomination D in
\* {1,5,10,20,50,100} with D >= total_cost and can_dispense_change(D - total_cost)
\* true, with change D - total_cost, and the exact payment (amount = total_cost,
\* change = 0) when no such D exists.
C15_LargestPayable ==
    eng.pc = "find_best_payment_amount"
    => IF Payable # {}
       THEN /\ eng.amount = Pesos(Max(Payable))
            /\ eng.change = eng.amount - eng.total_cost
       ELSE /\ eng.amount = eng.total_cost
            /\ eng.change = 0

C17_ExactFor23 ==
    (/\ eng.pc = "find_best_payment_amount"
     /\ eng.total_cost = Pesos(23)
     /\ eng.inventory = [d \in {1, 5} |-> IF d = 5 THEN 100 ELSE 0])
    => /\ eng.amount = Pesos(23)
       /\ eng.change = 0
       /\ eng.required_coins = [d \in {1, 5} |-> 0]

C17_Witness ==
    /\ eng.pc = "find_best_payment_amount"
    /\ eng.total_cost = Pesos(23)
    /\ eng.inventory = [d \in {1, 5} |-> IF d = 5 THEN 100 ELSE 0]
    /\ eng.threshold = [d \in {1, 5} |-> 0]
    /\ eng.amount = Pesos(23)
    /\ eng.change = 0

\* C18: for every whole change amount C >= 0, calculate_change_breakdown
\* returns fives = C // 5 and ones = C % 5, so that 5 * fives + ones = C and
\* 0 <= ones <= 4.
C18_MinimalBreakdown ==
    (eng.pc = "calculate_change_breakdown" /\ ArgPesos >= 0)
    => LET fives == eng.required_coins[5]
           ones == eng.required_coins[1]
       IN /\ fives = ArgPesos \div 5
          /\ ones = ArgPesos % 5
          /\ 5 * fives + ones = ArgPesos
          /\ 0 <= ones /\ ones <= 4

C18_Witness ==
    /\ eng.pc = "calculate_change_breakdown"
    /\ ArgPesos = 23
    /\ eng.required_coins[5] = 4
    /\ eng.required_coins[1] = 3

\* C19: no change above the configured cap MAX_CHANGE_LIMIT is approved:
\* can_dispense_change and validate_payment do not accept it, and
\* find_best_payment_amount never returns a change larger than the cap.
C19_CapEnforced ==
    /\ (eng.pc = "can_dispense_change" /\ eng.arg > eng.MAX_CHANGE_LIMIT)
       => ~eng.can_dispense
    /\ (eng.pc = "validate_payment" /\ eng.arg - eng.total_cost > eng.MAX_CHANGE_LIMIT)
       => ~eng.can_dispense
    /\ eng.pc = "find_best_payment_amount" => eng.change <= eng.MAX_CHANGE_LIMIT

\* The suggestions the engine has returned
Suggestions == eng.suggestions

\* C20: find_optimal_payment_amounts returns at most 5 suggestions, ordered
\* by priority and then by amount, the exact payment (change 0) first, and
\* every returned suggestion with change > 0 passes can_dispense_change on
\* the current inventory.
C20_RankedSuggestions ==
    eng.pc = "find_optimal_payment_amounts"
    => /\ Len(Suggestions) <= 5
       /\ \A i \in 1..Len(Suggestions) : \A j \in 1..Len(Suggestions) :
             i < j =>
               LET ri == priority_order(Suggestions[i].priority)
                   rj == priority_order(Suggestions[j].priority)
               IN \/ ri < rj
                  \/ ri = rj /\ Suggestions[i].amount <= Suggestions[j].amount
       /\ Len(Suggestions) >= 1
       /\ Suggestions[1].change = 0
       /\ Suggestions[1].amount = eng.total_cost
       /\ \A i \in 1..Len(Suggestions) :
             Suggestions[i].change > 0
             => /\ Suggestions[i].amount = eng.total_cost + Suggestions[i].change
                /\ can_dispense_change(Suggestions[i].change, eng.inventory,
                                       eng.threshold).can_dispense

C20_Witness ==
    /\ eng.pc = "find_optimal_payment_amounts"
    /\ Len(Suggestions) = 5
    /\ \E i \in 1..5 : Suggestions[i].priority = "high" /\ Suggestions[i].change > 0
    /\ \E i \in 1..5 : /\ Suggestions[i].priority = "medium"
                        /\ Suggestions[i].amount = Pesos(20)
    /\ eng.inventory[1] = 0

\* C21: when a non-simulated dispense_change finds the connection stale at
\* its hardware check, that step makes the one reconnect attempt of the call;
\* if the reconnect fails, the call returns there with success false, zero
\* counts and an error, having started no coin attempt and switched no motor
\* on.  No call makes more than one reconnect attempt.
C21_OneReconnect ==
    [][\A t \in Threads :
         /\ hist'[t].reconnects <= 1
         /\ (/\ call[t].pc = "check" /\ call'[t].pc # "check"
             /\ ~simulated /\ pi # "up")
            => /\ hist[t].reconnects = 0
               /\ hist'[t].reconnects = 1
               /\ pi' # "up"
                  => /\ call'[t].pc = "done"
                     /\ ~call'[t].result.success
                     /\ call'[t].result.coins_1 = 0
                     /\ call'[t].result.coins_5 = 0
                     /\ call'[t].result.error # "none"
                     /\ hist'[t].attempts = 0
                     /\ \A h \in HOPPER_CONFIGS : phys'[h].motor => phys[h].motor
                     /\ \A h \in HOPPER_CONFIGS : hop'[h].enabled => hop[h].enabled]_vars

C21_Witness ==
    /\ ~simulated
    /\ call[1].pc = "done"
    /\ hist[1].reconnects = 1
    /\ pi = "down"
    /\ call[1].result = Failure("pigpio_connection_failed")
    /\ hist[1].attempts = 0

\* C22: in simulated mode dispense_change(amount) for a whole amount > 0
\* reports every coin as dispensed: success, coins_5 = amount // 5,
\* coins_1 = amount % 5, actual_change = expected_change = amount, and no
\* GPIO access in the call.
C22_SimulatedDispensesAll ==
    \A t \in Threads :
        (simulated /\ call[t].pc = "done" /\ call[t].amount > 0)
        => /\ call[t].result.success
           /\ call[t].result.coins_5 = call[t].amount \div 5
           /\ call[t].result.coins_1 = call[t].amount % 5
           /\ call[t].result.has_totals
           /\ call[t].result.actual_change = call[t].amount
           /\ call[t].result.expected_change = call[t].amount
           /\ ~hist[t].wrote

\* A call is in its coin loops: past the hardware check, before the completion
InLoops(t) ==
    call[t].pc \in {"loop", "coin_check", "coin_set", "attempt", "reset", "wait",
                    "disable", "after", "settle", "coin_ret", "finish"}

\* The status callbacks of a call past its hardware check, without the
\* completion message: the preparing message, one per coin started, one per
\* denomination that failed
ProgressCallbacks(t) ==
    1 + hist[t].tried[5] + hist[t].tried[1]
      + Cardinality({d \in {1, 5} : hist[t].failed[d]})

\* C23: a dispense_change call with amount > 0 that passed the hardware check
\* fires the status callback for each coin it handles and, after all of them,
\* exactly once with the completion message, the last callback of the call;
\* the caller's emission of the result (DispenseThread.run) is the one step
\* that follows, and no status update of the call comes after it.
C23_CallbacksThenResult ==
    /\ [](\A t \in Threads :
            /\ InLoops(t)
               => /\ hist[t].callbacks = ProgressCallbacks(t)
                  /\ hist[t].lastCallback # "complete"
                  /\ hist[t].tried[5] = (IF call[t].denom = 5 THEN call[t].i
                                         ELSE hist[t].tried[5])
                     + (IF call[t].denom = 5 /\ call[t].pc \notin {"loop", "finish"}
                        THEN 1 ELSE 0)
            /\ (call[t].pc = "done" /\ call[t].amount > 0 /\ call[t].result.has_totals)
               => /\ hist[t].callbacks = ProgressCallbacks(t) + 1
                  /\ hist[t].lastCallback = "complete"
                  /\ hist[t].tried[5] >= call[t].result.coins_5
                  /\ hist[t].tried[1] >= call[t].result.coins_1)
    /\ [][\A t \in Threads :
            (call[t].pc = "done" /\ call'[t] # call[t])
            => /\ call'[t].pc = "idle"
               /\ hist'[t].callbacks = 0]_vars

C23_Witness ==
    /\ call[1].pc = "done"
    /\ call[1].amount = MaxAmount
    /\ call[1].result.coins_5 = 2
    /\ call[1].result.coins_1 = 1
    /\ hist[1].failed[1]
    /\ hist[1].callbacks = 7
    /\ hist[1].lastCallback = "complete"

\* C24: after any sequence of inventory updates (the DB thread's
\* update_coin_inventory and update_coin_inventory_after_dispense) every
\* stored coin count is >= 0, also when the dispensed count exceeds the
\* stored count; the count is then 0, and otherwise the difference.
C24_NeverNegative ==
    /\ \A d \in {1, 5} : eng.inventory[d] >= 0
    /\ eng.pc = "update_coin_inventory"
       => \A d \in {1, 5} :
            eng.inventory[d] = IF eng.dispensed[d] > eng.before[d] THEN 0
                               ELSE eng.before[d] - eng.dispensed[d]
    /\ eng.pc = "update_coin_inventory_after_dispense"
       => \A d \in {1, 5} :
            eng.inventory[d] = IF eng.dispensed[d] > eng.before[d] THEN 0
                               ELSE eng.before[d] - eng.dispensed[d]

C24_Witness ==
    /\ eng.pc = "update_coin_inventory_after_dispense"
    /\ eng.before[5] = 2
    /\ eng.dispensed[5] = 4
    /\ eng.inventory[5] = 0
    /\ eng.dispensed[1] = 0
    /\ eng.inventory[1] = 1

\* C25: the reserve thresholds are read from the settings table and the
\* inventory from the store at each feasibility computation: the answer of a
\* can_dispense_change or find_best_payment_amount call is the one for the
\* thresholds the settings table holds and the counts stored when the call is
\* made, whatever they were when the engine was built.
C25_LiveSettings ==
    /\ eng.pc = "can_dispense_change"
       => eng.can_dispense =
            can_dispense_change(eng.arg, eng.inventory,
                                eng.settings.min_coin_threshold).can_dispense
    /\ eng.pc = "find_best_payment_amount"
       => eng.amount =
            find_best_payment_amount(eng.total_cost, eng.inventory,
                                     eng.settings.min_coin_threshold).amount

\* C26: after every attempt of dispense_single_coin, whatever its outcome and
\* whatever the connection state, the motor of the hopper is off: it is off
\* once _disable_hopper has been called, and when dispense_single_coin has
\* returned.
C26_MotorOffAfterAttempt ==
    \A t \in Threads :
        (\/ call[t].pc \in {"after", "settle"}
         \/ call[t].pc = "coin_ret" /\ hist[t].returned)
        => ~phys[coin[t].hopper].motor

\* C27: in every attempt of dispense_single_coin the passage counter is reset
\* before the motor is enabled: when the attempt is about to reset the
\* counter, the motor of its hopper is still off, so that no passage of the
\* attempt is counted before the reset.
C27_ResetBeforeEnable ==
    \A t \in Threads :
        call[t].pc = "reset"
        => /\ ~phys[coin[t].hopper].motor
           /\ ~hop[coin[t].hopper].enabled

\* The coins a call has started
Started(t) == hist[t].tried[5] + hist[t].tried[1]

\* C28: the coins of one dispense_change call are dispensed one after the
\* other, the five-peso coins before the one-peso coins: no five-peso coin is
\* started once a one-peso coin has been started, a coin on real hardware is
\* started only after the dispense_single_coin of the coin before it has
\* returned, and while a call is between two coins no hopper is dispensing.
C28_Sequential ==
    /\ [][\A t \in Threads :
            /\ hist'[t].tried[5] > hist[t].tried[5] => hist[t].tried[1] = 0
            /\ (hist'[t].tried # hist[t].tried /\ Started(t) > 0 /\ ~simulated)
               => hist[t].returned]_vars
    /\ [](\A t \in Threads :
            call[t].pc \in {"loop", "coin_check", "coin_ret", "finish"}
            => \A h \in HOPPER_CONFIGS : ~hop[h].dispensing)

C28_Witness ==
    /\ ~simulated
    /\ call[1].pc = "attempt"
    /\ call[1].denom = 1
    /\ hist[1].tried[5] = 2
    /\ hist[1].tried[1] = 2
    /\ hist[1].failed[5]
    /\ hop["A"].dispensing
    /\ ~hop["B"].dispensing

\* C29: the sensor callback counts a passage exactly when a rising edge
\* follows a recorded falling edge at least the debounce duration (10 ms)
\* later; an earlier rising edge, a repeated falling edge and a rising edge
\* with no falling edge before it leave the counter as it is.
C29_DebouncedPassage ==
    [][sen'.edges # sen.edges
       => LET passage == /\ sen'.level = 1
                         /\ sen.sensor_active
                         /\ tickDiff(sen.last_sensor_change, sen'.tick) >= DEBOUNCE_US
          IN sen'.coin_passage_count
             = sen.coin_passage_count + (IF passage THEN 1 ELSE 0)]_vars

\* C30: a cancel of a running dispense takes effect only at a coin boundary:
\* the step that stops the dispense worker never finds a hopper motor enabled.
C30_CancelAtCoinBoundary ==
    [][\A t \in Threads :
         (call'[t].pc = "terminated" /\ call[t].pc # "terminated")
         => \A h \in HOPPER_CONFIGS : ~phys[h].motor]_vars

\* The reserve thresholds the model knows
ThresholdSettings == [{1, 5} -> ThresholdValues]

\* C32 as stated: there are an inventory and thresholds for which
\* can_dispense_change(7) holds while can_dispense_change(6) does not; looked
\* for whenever the engine has answered a can_dispense_change call.
C32_AsStated ==
    eng.pc = "can_dispense_change"
    => \E I \in Inventories : \E th \in ThresholdSettings :
          /\ can_dispense_change(Pesos(7), I, th).can_dispense
          /\ ~can_dispense_change(Pesos(6), I, th).can_dispense

\* C32 amended: the accepted amounts are non-contiguous at the multiples of
\* five: an engine that accepted 7 accepts 6 on the same inventory and
\* thresholds, and an engine with no 1-peso coin above the reserve accepts a
\* multiple of five it has the fives for while it refuses the amount one below.
C32_NonContiguous ==
    /\ (eng.pc = "can_dispense_change" /\ ArgPesos = 7 /\ eng.can_dispense)
       => can_dispense_change(Pesos(6), eng.inventory, eng.threshold).can_dispense
    /\ (/\ eng.pc = "can_dispense_change"
        /\ ArgPesos > 0
        /\ ArgPesos % 5 = 0
        /\ eng.can_dispense
        /\ available(eng.inventory, eng.threshold, 1) = 0)
       => ~can_dispense_change(eng.arg - Pesos(1), eng.inventory,
                               eng.threshold).can_dispense

C32_Witness ==
    /\ eng.pc = "can_dispense_change"
    /\ ArgPesos = 5
    /\ eng.can_dispense
    /\ eng.inventory[1] = 0
    /\ eng.inventory[5] = 3
    /\ ~can_dispense_change(Pesos(4), eng.inventory, eng.threshold).can_dispense

\* C33: validate_payment(total_cost, payment) is valid exactly when payment >=
\* total_cost and can_dispense_change(payment - total_cost) holds; when valid,
\* payment_info carries change_amount = payment - total_cost and the canonical
\* required_coins; when invalid, payment_info is empty; and the call changes
\* neither the inventory nor the thresholds nor the limit.
C33_ValidatePayment ==
    /\ [](eng.pc = "validate_payment"
          => LET change_amount == eng.arg - eng.total_cost
                 verdict == can_dispense_change(change_amount, eng.inventory,
                                                eng.threshold)
             IN /\ eng.can_dispense
                   <=> (eng.arg >= eng.total_cost /\ verdict.can_dispense)
                /\ eng.can_dispense
                   => /\ eng.has_info
                      /\ eng.change = change_amount
                      /\ eng.required_coins = calculate_change_breakdown(change_amount)
                /\ ~eng.can_dispense
                   => /\ ~eng.has_info
                      /\ eng.change = 0
                      /\ eng.required_coins = [d \in {1, 5} |-> 0])
    /\ [][eng'.pc = "validate_payment"
          => /\ eng'.inventory = eng.inventory
             /\ eng'.threshold = eng.threshold
             /\ eng'.settings = eng.settings
             /\ eng'.MAX_CHANGE_LIMIT = eng.MAX_CHANGE_LIMIT
             /\ eng'.total_cost = eng.total_cost]_vars

C33_Witness ==
    /\ eng.pc = "validate_payment"
    /\ eng.total_cost = 250
    /\ eng.arg = 1000
    /\ eng.can_dispense
    /\ eng.has_info
    /\ eng.change = 750
    /\ eng.required_coins[5] = 1
    /\ eng.required_coins[1] = 3

\* C37: for fixed inventory and thresholds, an amount C that
\* can_dispense_change accepts has C - 5 accepted when C >= 5 and C - 1
\* accepted when C % 5 >= 1.
C37_DownwardClosed ==
    (eng.pc = "can_dispense_change" /\ ArgPesos > 0 /\ eng.can_dispense)
    => /\ ArgPesos >= 5
          => can_dispense_change(eng.arg - Pesos(5), eng.inventory,
                                 eng.threshold).can_dispense
       /\ ArgPesos % 5 >= 1
          => can_dispense_change(eng.arg - Pesos(1), eng.inventory,
                                 eng.threshold).can_dispense

C37_Witness ==
    /\ eng.pc = "can_dispense_change"
    /\ ArgPesos = 12
    /\ eng.can_dispense
    /\ eng.inventory[5] = 3
    /\ eng.inventory[1] = 3
    /\ eng.threshold[5] = 1
    /\ eng.threshold[1] = 1
    /\ ~can_dispense_change(eng.arg + Pesos(1), eng.inventory, eng.threshold).can_dispense

\* C38: for every whole amount > 0 the counts dispense_change attempts
\* (amount // 5 fives, amount % 5 ones) equal the required_coins that
\* can_dispense_change returns for the same amount, so a dispense of an amount
\* the engine approved asks of neither denomination more than is stored or
\* than leaves the reserve.
C38_SameBreakdown ==
    (eng.pc = "can_dispense_change" /\ ArgPesos > 0)
    => /\ NumFives(ArgPesos) = eng.required_coins[5]
       /\ NumOnes(ArgPesos) = eng.required_coins[1]
       /\ eng.can_dispense
          => /\ NumFives(ArgPesos) <= eng.inventory[5]
             /\ NumOnes(ArgPesos) <= eng.inventory[1]
             /\ eng.threshold[5] > 0
                => eng.inventory[5] - NumFives(ArgPesos) >= eng.threshold[5]
             /\ eng.threshold[1] > 0
                => eng.inventory[1] - NumOnes(ArgPesos) >= eng.threshold[1]

C38_Witness ==
    /\ eng.pc = "can_dispense_change"
    /\ ArgPesos = 14
    /\ eng.can_dispense
    /\ eng.required_coins[5] = 2
    /\ eng.required_coins[1] = 4
    /\ eng.inventory[5] = 3
    /\ eng.threshold[5] = 1

\* C40: no two suggestions in the list returned by
\* find_optimal_payment_amounts carry the same payment amount.
C40_DistinctAmounts ==
    eng.pc = "find_optimal_payment_amounts"
    => \A i \in 1..Len(Suggestions) : \A j \in 1..Len(Suggestions) :
          Suggestions[i].amount = Suggestions[j].amount => i = j

\* The tick counter has wrapped since the falling edge the callback recorded
Wrapped(s) == s.tick < s.last_sensor_change

\* C34: the passage duration is the tick difference modulo 2^32: a rising
\* edge that ends a passage is counted if and only if the time that truly
\* passed since the recorded falling edge exceeds the debounce time, also when
\* the 32-bit tick counter has wrapped between the two edges.
C34_WraparoundDuration ==
    [][(sen'.edges # sen.edges /\ sen'.level = 1 /\ sen.sensor_active)
       => /\ tickDiff(sen.last_sensor_change, sen'.tick) = sen'.since
          /\ sen'.coin_passage_count
             = sen.coin_passage_count + (IF sen'.since > DEBOUNCE_US THEN 1 ELSE 0)]_vars

C34_Witness ==
    /\ sen.level = 1
    /\ ~sen.sensor_active
    /\ Wrapped(sen)
    /\ sen.since = DEBOUNCE_US + 10000
    /\ sen.coin_passage_count = 1
    /\ sen.edges = 2

\* C35: on real hardware the counts of a dispense_change call never exceed
\* what physically happened: the fives counted so far, and the coins_5 of the
\* result, are at most the passages at the sensor of hopper B during the call,
\* and the ones at most those at hopper A.
C35_NeverOverReported ==
    \A t \in callers :
       ~simulated
       => /\ InLoops(t)
             => /\ call[t].actual_fives <= phys["B"].passed
                /\ call[t].actual_ones <= phys["A"].passed
          /\ (call[t].pc = "done" /\ call[t].result.has_totals)
             => /\ call[t].result.coins_5 <= phys["B"].passed
                /\ call[t].result.coins_1 <= phys["A"].passed

C35_Witness ==
    /\ ~simulated
    /\ call[1].pc = "done"
    /\ call[1].result.has_totals
    /\ call[1].result.coins_5 = 1
    /\ call[1].result.coins_1 = 2
    /\ phys["B"].passed = 2
    /\ phys["A"].passed = 2

C36_FlagOnlyWhileDispensing ==
    \A h \in HOPPER_CONFIGS :
       hop[h].dispensing
       => \E t \in callers : InCoin(t) /\ coin[t].hopper = h

====
